---- MODULE Spec2Model ----
(***************************************************************************)
(* scba_dash: the scrape orchestrator (app/scraper.py perform_scrape), the *)
(* session client (PstraxScraper.login), the data requests                 *)
(* (getSCBAAlerts, scrape_data), the manual trigger (routes.py             *)
(* trigger_scrape) and the scheduled job (tasks.py scheduled_scrape),      *)
(* running against one database and one target site.                       *)
(*                                                                         *)
(* Python values are modelled as follows: None of a string field is the    *)
(* string "None", None of an HTTP status is 0, a dict is a record whose    *)
(* DOMAIN is the dict's key set, datetime.utcnow() is the integer clock    *)
(* `now`, and a JSON document is the record [json |-> value].              *)
(***************************************************************************)
EXTENDS Integers, Sequences, FiniteSets, TLC

VARIABLES
    now,            \* wall clock read by datetime.utcnow()
    ScrapeConfig,  \* table ScrapeConfig, rows in id order
    ScrapeData,    \* table ScrapeData, rows in id order
    pc,             \* pc[r]: position of run r in its handler
    loc,            \* loc[r]: local variables of run r's perform_scrape
    session,        \* session[r]: unflushed db.session of run r
    sent,           \* sent[r]: HTTP requests run r's requests.Session sent
    emitted,        \* socketio events emitted, in order
    http_response,  \* JSON response of POST /api/scrape/trigger
    job_log,        \* what the jobs of tasks.py printed at their except clauses
    fetched,        \* the envelope a call of PstraxScraper.scrape_data returned
    Alert,          \* table Alert, rows in id order
    tasks,          \* the globals of tasks.py: _app and the scheduler's jobs
    Task,           \* table Task, rows in id order
    User            \* table User, rows in id order

vars == <<now, ScrapeConfig, ScrapeData, pc, loc, session, sent, emitted,
          http_response, job_log, fetched, Alert, tasks, Task, User>>

-----------------------------------------------------------------------------
(* Bounds *)

MaxTime == 1        \* the clock ticks at most this many times
MaxInt == 9999999   \* Python's integers have no bound and TLC's have: the
                    \* model keeps the integers up to MaxInt as they are, and
                    \* MaxInt + 1 stands for every integer from 10^13 on

-----------------------------------------------------------------------------
(* Python helpers *)

None == "None"
NoStatus == 0

Truthy(s) == s # None /\ s # ""

\* 'sub in s'
Contains(s, sub) ==
    \E i \in 1..(Len(s) - Len(sub) + 1) : SubSeq(s, i, i + Len(sub) - 1) = sub

\* s.startswith(p)
StartsWith(s, p) == Len(s) >= Len(p) /\ SubSeq(s, 1, Len(p)) = p

\* s.rstrip("/")
RECURSIVE rstrip(_)
rstrip(s) ==
    IF Len(s) > 0 /\ SubSeq(s, Len(s), Len(s)) = "/"
    THEN rstrip(SubSeq(s, 1, Len(s) - 1))
    ELSE s

\* s[:n]
Prefix(s, n) == IF Len(s) <= n THEN s ELSE SubSeq(s, 1, n)

\* s.lower(), for the upper-case letters the modelled pages contain
LowerChar(c) ==
    CASE c = "A" -> "a" [] c = "E" -> "e" [] c = "L" -> "l" [] c = "S" -> "s"
      [] c = "X" -> "x" [] OTHER -> c
RECURSIVE lower(_)
lower(s) ==
    IF Len(s) = 0 THEN ""
    ELSE LowerChar(SubSeq(s, 1, 1)) \o lower(SubSeq(s, 2, Len(s)))

\* d.get(k) of a dict d
Get(d, k) == IF k \in DOMAIN d THEN d[k] ELSE None

-----------------------------------------------------------------------------
(* The two handlers that start a run: one manual trigger request and one   *)
(* firing of the scheduled job, which may overlap                          *)

Manual == "trigger_scrape"
Scheduled == "scheduled_scrape"
Runs == {Manual, Scheduled}


-----------------------------------------------------------------------------
(* models/scrape_config.py *)

CurrentKey == "key-current"     \* what _get_encryption_key() returns now
RotatedKey == "key-rotated"     \* a key an earlier deployment encrypted with

NoToken == [kind |-> "None"]
Fernet_encrypt(key, plain) == [kind |-> "fernet", key |-> key, plain |-> plain]

\* set_password that stores the password as it is
set_password_Plaintext(password) ==
    IF ~Truthy(password) THEN NoToken
    ELSE [kind |-> "plain", key |-> CurrentKey, plain |-> password]

\* ScrapeConfig.set_password: the new value of pstrax_password_encrypted
set_password(password) ==
    IF ~Truthy(password) THEN NoToken
    ELSE Fernet_encrypt(CurrentKey, password)

\* ScrapeConfig.get_password: Fernet.decrypt raises InvalidToken under a
\* different key, and the except clause turns that into None
get_password(row) ==
    LET tok == row.pstrax_password_encrypted IN
    IF tok.kind = "None" THEN None
    ELSE IF tok.key = CurrentKey THEN tok.plain
    ELSE None

NoTime == -1

\* one row of table scrape_config
ConfigRow(base_url, username, token) ==
    [id |-> 1,
     pstrax_base_url |-> base_url,
     pstrax_username |-> username,
     pstrax_password_encrypted |-> token,
     last_scrape |-> NoTime,
     scrape_interval |-> 15,
     updated_at |-> 0]

BaseUrls == {"https://pstrax.com/"}
Usernames == {None, "", "alice"}
Tokens == {NoToken, Fernet_encrypt(RotatedKey, "secret"), set_password("secret")}

\* ScrapeConfig.query.first(): the id of the first row, NoRow for None
NoRow == 0
first(table) == IF Len(table) = 0 THEN NoRow ELSE table[1].id

RowOf(table, id) == table[CHOOSE i \in 1..Len(table) : table[i].id = id]

-----------------------------------------------------------------------------
(* models/scrape_data.py *)

\* ScrapeData.set_data: json.dumps of the dict
json_dumps(d) == [json |-> d]

\* ScrapeData.get_data: json.loads of the column
get_data(row) == row.data.json

-----------------------------------------------------------------------------
(* urllib.parse *)

\* the least i >= from with s[i..] starting with sub, 0 when there is none
IndexOf(s, sub, from) ==
    LET hits == {i \in from..(Len(s) - Len(sub) + 1) :
                    SubSeq(s, i, i + Len(sub) - 1) = sub}
    IN IF hits = {} THEN 0 ELSE CHOOSE i \in hits : \A j \in hits : i <= j

\* f"{parsed.scheme}://{parsed.netloc}" of urlparse(url)
Origin(url) ==
    LET c == IndexOf(url, "://", 1) IN
    IF c = 0 THEN "://"
    ELSE LET p == IndexOf(url, "/", c + 3) IN
         IF p = 0 THEN url ELSE SubSeq(url, 1, p - 1)

\* urljoin(base, rel) for a relative reference rel without a leading slash:
\* rel replaces what follows the last slash of base's path
urljoin(base, rel) ==
    LET o == Origin(base)
        slashes == {i \in (Len(o) + 1)..Len(base) : SubSeq(base, i, i) = "/"}
    IN IF slashes = {} THEN o \o "/" \o rel
       ELSE SubSeq(base, 1, CHOOSE i \in slashes : \A j \in slashes : j <= i) \o rel

\* quote(s): letters, digits and "_.-~/" are kept, the rest is percent-encoded
QuoteChar(c) == CASE c = " " -> "%20" [] c = "@" -> "%40" [] OTHER -> c
RECURSIVE quote(_)
quote(s) ==
    IF Len(s) = 0 THEN ""
    ELSE QuoteChar(SubSeq(s, 1, 1)) \o quote(SubSeq(s, 2, Len(s)))

-----------------------------------------------------------------------------
(* PstraxScraper.login, scraper.py 26-189 *)

\* a link a page points to by href, resolved as _find_alerts_link and the
\* form action are: absolute, rooted at the site, or relative to the page
Resolve(href, base_url, current_url) ==
    IF StartsWith(href, "http") THEN href
    ELSE IF StartsWith(href, "/") THEN Origin(base_url) \o href
    ELSE urljoin(current_url, href)

\* PstraxScraper._find_alerts_link: hrefs is the page's <a href> list in
\* document order (lower-case here, so href.lower() is href)
RECURSIVE _find_alerts_link(_, _, _)
_find_alerts_link(hrefs, base_url, current_url) ==
    IF Len(hrefs) = 0 THEN None
    ELSE IF Contains(Head(hrefs), "scba-open-alerts") \/ Contains(Head(hrefs), "scba/alerts")
         THEN Resolve(Head(hrefs), base_url, current_url)
         ELSE _find_alerts_link(Tail(hrefs), base_url, current_url)

\* error_details as login starts with it (lines 39-44)
error_details0 ==
    [step |-> "accessing_login_page", status_code |-> NoStatus,
     message |-> None, url |-> None]

\* the login URL of line 50
login_url(username, base_url) ==
    rstrip(base_url) \o "/login.php?username=" \o quote(username)

\* one except clause for every exception: no network-error classification
login_except_AllUnexpected(exc, msg) == "Unexpected error: " \o msg

\* lines 184-189: the message of login's two except clauses
login_except(exc, msg) ==
    IF exc = "RequestException" THEN "Network error: " \o msg
    ELSE "Unexpected error: " \o msg

\* lines 52-136: what login makes of the answer to GET login_url.  The
\* result is <<TRUE, login_post_url>> when the form can be submitted and
\* <<FALSE, error_details>> when login returns here.
login_parse_page(get, base_url) ==
    LET fail(step, msg, status) ==
            <<FALSE, [error_details0 EXCEPT !.step = step, !.message = msg,
                                            !.status_code = status]>>
    IN
    IF get.exc # "none"
        THEN fail("accessing_login_page", login_except(get.exc, get.msg), NoStatus)
    ELSE IF get.status_code # 200
        THEN fail("accessing_login_page",
                  "Failed to access login page: Status " \o ToString(get.status_code),
                  get.status_code)
    ELSE IF ~get.form
        THEN fail("finding_form", "Login form not found", NoStatus)
    ELSE IF ~get.username_field
        THEN fail("finding_username_field", "Username field not found", NoStatus)
    ELSE IF ~get.password_field
        THEN fail("finding_password_field", "Password field not found", NoStatus)
    ELSE IF ~get.csrf_field
        THEN fail("finding_csrf_token", "CSRF token field not found", NoStatus)
    ELSE IF get.csrf_token = ""
        THEN fail("getting_csrf_token", "CSRF token value is empty", NoStatus)
    ELSE <<TRUE,
           IF get.action # ""
           THEN IF StartsWith(get.action, "http") THEN get.action
                ELSE IF StartsWith(get.action, "/") THEN Origin(base_url) \o get.action
                ELSE urljoin(base_url, get.action)
           ELSE Origin(base_url) \o "/login">>

\* login without the uncertain case: success on a signal, failure otherwise
login_classify_NoTentative(post, username, base_url, login_post_url) ==
    IF post.exc = "none"
       /\ (~Contains(post.url, "login") \/ post.logout \/ post.home
           \/ post.dashboard)
    THEN <<TRUE, [redirect_url |-> post.url]>>
    ELSE <<FALSE, [error_details0 EXCEPT !.step = "submitting_login",
                                         !.message = "Login failed",
                                         !.url = login_post_url]>>

\* lines 137-189: what login returns on the answer to the login POST
login_classify(post, username, base_url, login_post_url) ==
    LET details == [error_details0 EXCEPT !.step = "submitting_login",
                                          !.url = login_post_url]
        is_not_login_page == ~Contains(post.url, "login")
        has_logout_link == post.logout
        has_home_link == post.home
        has_dashboard == post.dashboard
        has_username == post.username
        alerts_link == _find_alerts_link(post.hrefs, base_url, post.url)
        result == IF Truthy(alerts_link)
                  THEN [redirect_url |-> post.url, alerts_link |-> alerts_link]
                  ELSE [redirect_url |-> post.url]
        with_status == [details EXCEPT !.status_code = post.status_code]
        where == ToString(post.status_code) \o ", URL: " \o post.url
    IN
    IF post.exc # "none"
        THEN <<FALSE, [details EXCEPT !.message = login_except(post.exc, post.msg)]>>
    ELSE IF is_not_login_page \/ has_logout_link \/ has_home_link \/ has_dashboard
        THEN <<TRUE, result>>
    ELSE IF post.login_form /\ Contains(post.url, "login")
        THEN <<FALSE,
               [step |-> with_status.step, status_code |-> with_status.status_code,
                message |-> "Login failed - still on login page (Status: "
                            \o where \o ")",
                url |-> with_status.url,
                response_preview |-> Prefix(post.text, 500)]>>
    ELSE IF post.status_code = 200
        THEN <<TRUE, result>>
    ELSE <<FALSE,
           [step |-> with_status.step, status_code |-> with_status.status_code,
            message |-> "Login failed - Status: " \o where,
            url |-> with_status.url,
            response_preview |-> Prefix(post.text, 500)]>>

-----------------------------------------------------------------------------
(* What the target site may answer *)

SiteUrl == "https://pstrax.com"

RequestExceptions == {[exc |-> "RequestException", msg |-> "Read timed out"]}
OtherExceptions == {[exc |-> "Exception", msg |-> "internal"]}

\* answers to GET login_url: the status and what BeautifulSoup finds
GetAnswers ==
    RequestExceptions \cup
    [exc : {"none"}, status_code : {200, 503},
     form : BOOLEAN, username_field : {TRUE}, password_field : {TRUE},
     csrf_field : {TRUE}, csrf_token : {"abc123"},
     action : {"/login.php"}]

\* answers to the login POST: status, final URL, what the body contains
PostAnswers ==
    RequestExceptions \cup
    [exc : {"none"}, status_code : {200, 401},
     url : {SiteUrl \o "/login.php", SiteUrl \o "/home.php"},
     logout : BOOLEAN, home : BOOLEAN, dashboard : BOOLEAN, username : BOOLEAN,
     login_form : BOOLEAN,
     hrefs : {<<>>, <<"profile.php", "/scba/scba-open-alerts.php">>},
     text : {"<html>pstrax</html>"}]

\* json.loads(text) and response.json(): ValueError unless text is JSON
\* the bodies the model knows; the JSON ones are lists of strings
AlertsJson == "[\"scba-7\"]"
ExpiredJson == "[\"Session Expired\"]"
ExpiredHtml == "<html>session expired</html>"
AuthExpiredText == "Authentication expired"
LoginHtml == "<html><form action='/Login.php'></form></html>"
PlainText == "maintenance"
IsJson(text) == text \in {AlertsJson, ExpiredJson}
json_loads(text) ==
    IF text = AlertsJson THEN <<"scba-7">>
    ELSE IF text = ExpiredJson THEN <<"Session Expired">>
    ELSE <<>>
JsonTexts == {AlertsJson}

\* answers to a data POST sent to url
DataAnswers(url) ==
    RequestExceptions \cup
    [exc : {"none"}, status_code : {200},
     url : {url}, text : JsonTexts \cup {ExpiredHtml}] \cup
    [exc : {"none"}, status_code : {500},
     url : {url, SiteUrl \o "/login.php"}, text : {ExpiredHtml}]

-----------------------------------------------------------------------------
(* PstraxScraper.getSCBAAlerts, scraper.py 191-221 *)

\* the URL getSCBAAlerts posts to (line 201)
alerts_url(base_url) == rstrip(base_url) \o "/scba/scba-open-alerts-data.php"

Request(method, url) == [method |-> method, url |-> url]

\* a request for alert data, as opposed to the two login requests
IsDataRequest(req) == req.method = "POST" /\ Contains(req.url, "/scba/")

-----------------------------------------------------------------------------
(* PstraxScraper.scrape_data, scraper.py 280-404 *)

\* lines 295-303: the URL scrape_data posts to
scrape_data_url(base_url, target_url) ==
    IF Truthy(target_url)
    THEN IF Contains(target_url, "?p=home") THEN target_url
         ELSE IF Contains(target_url, "?") THEN target_url \o "&p=home"
         ELSE target_url \o "?p=home"
    ELSE rstrip(base_url) \o "/scba/scba-open-alerts-data.php?p=home"

\* line 366: soup.find('form', action=...) finds a form whose action
\* contains 'login' in any case
HasLoginFormAction(text) ==
    LET i == IndexOf(lower(text), "<form action='", 1) IN
    i > 0 /\ Contains(SubSeq(lower(text), i, Len(text)), "login")

\* scrape_data that parses the body only when it is declared as JSON
scrape_data_ByContentType(base_url, target_url, resp, t) ==
    LET url == scrape_data_url(base_url, target_url) IN
    IF /\ resp.exc = "none"
       /\ resp.status_code = 200
       /\ resp.content_type = "application/json"
       /\ IsJson(resp.text)
    THEN [scraped_at |-> t, url |-> url, status |-> "success",
          data |-> json_loads(resp.text)]
    ELSE [status |-> "error", error |-> "Expected JSON but got non-JSON content",
          scraped_at |-> t, url |-> url]

\* lines 322-404: the envelope scrape_data returns on the site's answer
scrape_data(base_url, target_url, resp, t) ==
    LET url == scrape_data_url(base_url, target_url)
        response_lower == lower(resp.text)
    IN
    IF resp.exc = "RequestException"
        THEN [status |-> "error", error |-> "Request error: " \o resp.msg,
              scraped_at |-> t, url |-> url]
    ELSE IF resp.exc # "none"
        THEN [status |-> "error", error |-> "Unexpected error: " \o resp.msg,
              scraped_at |-> t, url |-> url]
    ELSE IF resp.status_code # 200
        THEN [status |-> "error",
              error |-> "Failed to access alerts endpoint. Status: "
                        \o ToString(resp.status_code),
              scraped_at |-> t, url |-> url, status_code |-> resp.status_code]
    ELSE IF Contains(response_lower, "authentication expired")
            \/ Contains(response_lower, "session expired")
        THEN [status |-> "error", error |-> "Authentication expired",
              scraped_at |-> t, url |-> url]
    ELSE IF Contains(lower(resp.url), "login")
        THEN [status |-> "error", error |-> "Redirected to login page",
              scraped_at |-> t, url |-> resp.url]
    ELSE IF IsJson(resp.text)
        THEN [scraped_at |-> t, url |-> url, status |-> "success",
              data |-> json_loads(resp.text)]
    ELSE IF (StartsWith(resp.text, "<") \/ Contains(response_lower, "<html"))
            /\ HasLoginFormAction(resp.text)
        THEN [status |-> "error",
              error |-> "Received HTML login page instead of JSON",
              scraped_at |-> t, url |-> url]
    ELSE [status |-> "error",
          error |-> "Expected JSON but got non-JSON content. Content-Type: "
                    \o resp.content_type,
          scraped_at |-> t, url |-> url,
          response_preview |-> Prefix(resp.text, 500)]

\* answers to the POST of scrape_data sent to url
ScrapeDataAnswers(url) ==
    RequestExceptions \cup OtherExceptions \cup
    [exc : {"none"}, status_code : {200, 500},
     url : {url, SiteUrl \o "/Login.php"},
     content_type : {"text/html; charset=UTF-8", "application/json"},
     text : {AlertsJson, ExpiredJson, ExpiredHtml, AuthExpiredText, LoginHtml,
             PlainText}]

TargetUrls ==
    {None, SiteUrl \o "/scba/scba-open-alerts.php",
     SiteUrl \o "/scba/scba-open-alerts-data.php?p=home",
     SiteUrl \o "/scba/alerts?type=all"}

-----------------------------------------------------------------------------
(* perform_scrape, scraper.py 407-513: its pure parts *)

\* GuardPasses without the check of line 421: a password that cannot be
\* decrypted no longer stops the run
GuardPasses_NoDecryptCheck(table) ==
    /\ first(table) # NoRow
    /\ LET config == RowOf(table, first(table)) IN
        /\ Truthy(config.pstrax_username)
        /\ config.pstrax_password_encrypted # NoToken

\* lines 414 and 421: the run goes on to log in
GuardPasses(table) ==
    /\ first(table) # NoRow
    /\ LET config == RowOf(table, first(table)) IN
        /\ Truthy(config.pstrax_username)
        /\ config.pstrax_password_encrypted # NoToken
        /\ Truthy(get_password(config))

\* line 425
effective_base_url(config) ==
    IF Truthy(config.pstrax_base_url) THEN config.pstrax_base_url ELSE SiteUrl

\* lines 434-439
login_failed_data(login_result, t) ==
    [status |-> "error", error |-> "Login failed", scraped_at |-> t,
     error_details |-> login_result]

\* lines 447-452, on the answer of getSCBAAlerts; not reached when
\* scba_alerts.json() raises
after_login_failed_data(error_data, resp) ==
    IF resp.status_code # 200
    THEN [error_data EXCEPT !.error = "Failed to get SCBA alerts",
                            !.error_details = [text |-> resp.text]]
    ELSE [error_data EXCEPT !.error = "Successfully got SCBA alerts",
                            !.error_details = [json |-> json_loads(resp.text)]]

\* lines 461-465
target_url_of(login_result) ==
    IF Truthy(Get(login_result, "alerts_link")) THEN login_result.alerts_link
    ELSE None

\* alerts_data without line 492: a body that is not JSON leaves the status
\* at 'success'
alerts_data_NoStatusReset(resp, base_url, t) ==
    LET url == alerts_url(base_url) IN
    IF resp.status_code = 200
    THEN IF IsJson(resp.text)
         THEN [scraped_at |-> t, url |-> url, status |-> "success",
               data |-> json_loads(resp.text)]
         ELSE [scraped_at |-> t, url |-> url, status |-> "success",
               error |-> "Failed to parse JSON response",
               response_preview |-> Prefix(resp.text, 500)]
    ELSE [scraped_at |-> t, url |-> url, status |-> "error",
          error |-> IF Contains(resp.url, "login")
                    THEN "Authentication expired - redirected to login"
                    ELSE "Failed to fetch SCBA alerts. Status: "
                         \o ToString(resp.status_code),
          status_code |-> resp.status_code]

\* lines 473-499
alerts_data(resp, base_url, t) ==
    LET url == alerts_url(base_url) IN
    IF resp.status_code = 200
    THEN IF IsJson(resp.text)
         THEN [scraped_at |-> t, url |-> url, status |-> "success",
               data |-> json_loads(resp.text)]
         ELSE [scraped_at |-> t, url |-> url, status |-> "error",
               error |-> "Failed to parse JSON response",
               response_preview |-> Prefix(resp.text, 500)]
    ELSE [scraped_at |-> t, url |-> url, status |-> "error",
          error |-> IF Contains(resp.url, "login")
                    THEN "Authentication expired - redirected to login"
                    ELSE "Failed to fetch SCBA alerts. Status: "
                         \o ToString(resp.status_code),
          status_code |-> resp.status_code]

-----------------------------------------------------------------------------
(* db.session *)

NoSession == [config |-> [id |-> NoRow], new |-> <<>>, modified |-> {}]

\* db.session.add(scrape_data) after scrape_data.set_data(d)
session_add(s, d) == [s EXCEPT !.new = Append(@, json_dumps(d))]

\* set_last_scrape left out: the run adds its record and never touches
\* config.last_scrape
set_last_scrape_Missing(s, t) == s

\* config.last_scrape = datetime.utcnow()
set_last_scrape(s, t) ==
    [s EXCEPT !.config = [@ EXCEPT !.last_scrape = t],
              !.modified = @ \cup {"last_scrape"}]

\* insert_all with the primary key taken from the row count the run saw
\* when it started: the second writer replaces the first writer's row
RECURSIVE insert_all_ReplacingLast(_, _, _)
insert_all_ReplacingLast(table, new, t) ==
    IF Len(new) = 0 THEN table
    ELSE LET row == [id |-> 1, data |-> Head(new), scraped_at |-> t] IN
         insert_all_ReplacingLast(
            IF Len(table) = 0 THEN <<row>> ELSE [table EXCEPT ![1] = row],
            Tail(new), t)

\* insert_all that also rewrites the rows already stored: every record
\* takes the time of the latest commit
insert_all_Restamping(table, new, t) ==
    [i \in 1..(Len(table) + Len(new)) |->
        IF i <= Len(table) THEN [table[i] EXCEPT !.scraped_at = t]
        ELSE [id |-> i, data |-> new[i - Len(table)], scraped_at |-> t]]

\* INSERT of the session's new ScrapeData objects: the id is the next
\* autoincrement value, scraped_at the column default at flush time
RECURSIVE insert_all(_, _, _)
insert_all(table, new, t) ==
    IF Len(new) = 0 THEN table
    ELSE insert_all(Append(table, [id |-> Len(table) + 1, data |-> Head(new),
                                   scraped_at |-> t]),
                    Tail(new), t)

\* UPDATE of every column with the values of the session's object, as it
\* was loaded when the run started
update_config_WholeRow(table, s, t) ==
    IF s.modified = {} THEN table
    ELSE [i \in 1..Len(table) |->
            IF table[i].id # s.config.id THEN table[i]
            ELSE [c \in DOMAIN table[i] |->
                    IF c = "updated_at" THEN t ELSE s.config[c]]]

\* UPDATE of the modified columns of the session's ScrapeConfig row;
\* updated_at has onupdate=datetime.utcnow
update_config(table, s, t) ==
    IF s.modified = {} THEN table
    ELSE [i \in 1..Len(table) |->
            IF table[i].id # s.config.id THEN table[i]
            ELSE [c \in DOMAIN table[i] |->
                    IF c \in s.modified THEN s.config[c]
                    ELSE IF c = "updated_at" THEN t
                    ELSE table[i][c]]]

-----------------------------------------------------------------------------
(* tasks.py: the scheduler and its jobs *)

\* IntervalTrigger(minutes=n): the interval of the trigger in seconds.
\* APScheduler replaces an interval of length zero by one second.
IntervalTrigger(minutes) == IF minutes = 0 THEN 1 ELSE 60 * minutes

\* IntervalTrigger(minutes=n) builds timedelta(minutes=n), which raises
\* OverflowError for an n too large; of the integers of the model only the
\* one that stands for those above MaxInt is
timedelta_overflows(minutes) == minutes > MaxInt

\* a job as add_job registers it at time at: the trigger starts one
\* interval from now, and the run times are counted from there
Job(id, func, seconds, at) ==
    [id |-> id, func |-> func, seconds |-> seconds, start_date |-> at + seconds]

\* scheduler.remove_job(id); the JobLookupError for an id that is not there
\* is passed over by the bare except of tasks.py 110
remove_job(jobs, id) ==
    LET keep(j) == j.id # id IN SelectSeq(jobs, keep)

\* scheduler.add_job(..., id=job.id, replace_existing=True)
add_job(jobs, job) ==
    IF \E i \in 1..Len(jobs) : jobs[i].id = job.id
    THEN [i \in 1..Len(jobs) |-> IF jobs[i].id = job.id THEN job ELSE jobs[i]]
    ELSE Append(jobs, job)

\* the globals of tasks.py before start_background_tasks
NotStarted == [_app |-> FALSE, running |-> FALSE, jobs |-> <<>>]

\* start_background_tasks(app), tasks.py 62-93
start_background_tasks(t, table, at) ==
    LET interval_minutes == IF first(table) # NoRow
                            THEN RowOf(table, first(table)).scrape_interval
                            ELSE 15
        with_check_alerts == add_job(t.jobs, Job("check_alerts", "check_alerts",
                                                 IntervalTrigger(1), at))
    IN IF timedelta_overflows(interval_minutes)
       THEN \* line 83 raises: scheduler.start() is not reached
            [_app |-> TRUE, running |-> FALSE, jobs |-> with_check_alerts]
       ELSE [_app |-> TRUE, running |-> TRUE,
             jobs |-> add_job(with_check_alerts,
                              Job("scheduled_scrape", "scheduled_scrape",
                                  IntervalTrigger(interval_minutes), at))]

\* update_scrape_schedule(), tasks.py 96-122
update_scrape_schedule(t, table, at) ==
    IF ~t._app THEN t
    ELSE IF first(table) = NoRow THEN t
    ELSE LET config == RowOf(table, first(table))
             removed == remove_job(t.jobs, "scheduled_scrape")
         IN IF timedelta_overflows(config.scrape_interval)
            THEN \* line 116 raises after the removal; line 121 prints it
                 [t EXCEPT !.jobs = removed]
            ELSE [t EXCEPT !.jobs =
                    add_job(removed,
                            Job("scheduled_scrape", "scheduled_scrape",
                                IntervalTrigger(config.scrape_interval), at))]

-----------------------------------------------------------------------------
(* Initial state: the database as settings left it, nothing running *)

NoResponse == [status |-> 0]
NoEnvelope == [status |-> "none"]

ConfigTables ==
    {<<>>} \cup {<<ConfigRow(b, u, k)>> : b \in BaseUrls, u \in Usernames, k \in Tokens}

Init ==
    /\ now = 0
    /\ ScrapeConfig \in ConfigTables
    /\ ScrapeData = <<>>
    /\ pc = [r \in Runs |-> "idle"]
    /\ loc = [r \in Runs |-> [handler |-> r]]
    /\ session = [r \in Runs |-> NoSession]
    /\ sent = [r \in Runs |-> <<>>]
    /\ emitted = <<>>
    /\ http_response = NoResponse
    /\ job_log = <<>>
    /\ fetched = NoEnvelope
    /\ Alert = <<>>
    /\ tasks = start_background_tasks(NotStarted, ScrapeConfig, now)
    /\ Task = <<>>
    /\ User = <<>>

-----------------------------------------------------------------------------
(* Actions *)

\* time passes
Tick ==
    /\ now < MaxTime
    /\ now' = now + 1
    /\ UNCHANGED <<Task, User, Alert, tasks, ScrapeConfig, ScrapeData, pc, loc, session, sent, emitted,
                   http_response, job_log, fetched>>

\* a PstraxScraper is asked for scrape_data (scraper.py 280-404) while no
\* run is in flight
ScrapeDataCall ==
    /\ \A r \in Runs : pc[r] = "idle"
    /\ fetched = NoEnvelope
    /\ \E base_url \in BaseUrls, target_url \in TargetUrls :
        \E resp \in ScrapeDataAnswers(scrape_data_url(base_url, target_url)) :
            fetched' = scrape_data(base_url, target_url, resp, now)
    /\ UNCHANGED <<Task, User, Alert, tasks, now, ScrapeConfig, ScrapeData, pc, loc, session, sent, emitted,
                   http_response, job_log>>

\* the caller is done with the envelope
ScrapeDataReturn ==
    /\ fetched # NoEnvelope
    /\ fetched' = NoEnvelope
    /\ UNCHANGED <<Task, User, Alert, tasks, now, ScrapeConfig, ScrapeData, pc, loc, session, sent, emitted,
                   http_response, job_log>>

\* POST /api/scrape/trigger arrives (routes.py 361-366), or the scheduler
\* fires scheduled_scrape (tasks.py 50-56): perform_scrape is entered with a
\* fresh session and a fresh PstraxScraper
Begin(r) ==
    /\ pc[r] = "idle"
    /\ fetched = NoEnvelope
    /\ pc' = [pc EXCEPT ![r] = "perform_scrape"]
    /\ loc' = [loc EXCEPT ![r] = [handler |-> r]]
    /\ session' = [session EXCEPT ![r] = NoSession]
    /\ sent' = [sent EXCEPT ![r] = <<>>]
    /\ http_response' = IF r = Manual THEN NoResponse ELSE http_response
    /\ UNCHANGED <<Task, User, Alert, tasks, now, ScrapeConfig, ScrapeData, emitted, job_log, fetched>>

\* scraper.py 411-428: the credential guard
Guard(r) ==
    /\ pc[r] = "perform_scrape"
    /\ IF GuardPasses(ScrapeConfig)
       THEN LET config == RowOf(ScrapeConfig, first(ScrapeConfig)) IN
            /\ loc' = [loc EXCEPT ![r] =
                        [handler |-> r,
                         username |-> config.pstrax_username,
                         password |-> get_password(config),
                         base_url |-> effective_base_url(config)]]
            /\ session' = [session EXCEPT ![r] = [NoSession EXCEPT !.config = config]]
            /\ pc' = [pc EXCEPT ![r] = "login_get"]
       ELSE /\ pc' = [pc EXCEPT ![r] = "returned"]
            /\ UNCHANGED <<loc, session>>
    /\ UNCHANGED <<Task, User, Alert, tasks, now, ScrapeConfig, ScrapeData, sent, emitted,
                   http_response, job_log, fetched>>

\* scraper.py 431 with login's lines 46-118: GET of the login page
LoginGet(r) ==
    /\ pc[r] = "login_get"
    /\ \E get \in GetAnswers :
        LET url == login_url(loc[r].username, loc[r].base_url)
            parsed == login_parse_page(get, loc[r].base_url)
        IN
        /\ sent' = [sent EXCEPT ![r] = Append(@, Request("GET", url))]
        /\ IF parsed[1]
           THEN /\ loc' = [loc EXCEPT ![r] =
                            [handler |-> r, username |-> loc[r].username,
                             password |-> loc[r].password,
                             base_url |-> loc[r].base_url,
                             login_post_url |-> parsed[2]]]
                /\ pc' = [pc EXCEPT ![r] = "login_post"]
           ELSE /\ loc' = [loc EXCEPT ![r] =
                            [handler |-> r, username |-> loc[r].username,
                             password |-> loc[r].password,
                             base_url |-> loc[r].base_url,
                             login_success |-> FALSE,
                             login_result |-> parsed[2],
                             error_data |-> login_failed_data(parsed[2], now)]]
                /\ pc' = [pc EXCEPT ![r] = "login_failed"]
    /\ UNCHANGED <<Task, User, Alert, tasks, now, ScrapeConfig, ScrapeData, session, emitted,
                   http_response, job_log, fetched>>

\* scraper.py 431-445 with login's lines 119-189: the login POST and what
\* perform_scrape makes of login's result
LoginPost(r) ==
    /\ pc[r] = "login_post"
    /\ \E post \in PostAnswers :
        LET result == login_classify(post, loc[r].username, loc[r].base_url,
                                     loc[r].login_post_url)
            base == [handler |-> r, username |-> loc[r].username,
                     password |-> loc[r].password, base_url |-> loc[r].base_url,
                     login_success |-> result[1], login_result |-> result[2]]
        IN
        /\ sent' = [sent EXCEPT ![r] = Append(@, Request("POST", loc[r].login_post_url))]
        /\ IF result[1]
           THEN /\ loc' = [loc EXCEPT ![r] = base]
                /\ pc' = [pc EXCEPT ![r] = "get_alerts"]
           ELSE /\ loc' = [loc EXCEPT ![r] =
                            [handler |-> r, username |-> base.username,
                             password |-> base.password, base_url |-> base.base_url,
                             login_success |-> FALSE, login_result |-> result[2],
                             error_data |-> login_failed_data(result[2], now)]]
                /\ pc' = [pc EXCEPT ![r] = "login_failed"]
    /\ UNCHANGED <<Task, User, Alert, tasks, now, ScrapeConfig, ScrapeData, session, emitted,
                   http_response, job_log, fetched>>

\* scraper.py 446-456: the login-failure branch up to the commit
LoginFailedBranch(r) ==
    /\ pc[r] = "login_failed"
    /\ LET url == alerts_url(loc[r].base_url) IN
       \E resp \in DataAnswers(url) :
        /\ sent' = [sent EXCEPT ![r] = Append(@, Request("POST", url))]
        /\ IF resp.exc # "none"
           THEN \* getSCBAAlerts raises (line 446)
                /\ loc' = [loc EXCEPT ![r] = [exception |-> "Request error: " \o resp.msg] @@ @]
                /\ pc' = [pc EXCEPT ![r] = "raised"]
                /\ UNCHANGED session
           ELSE IF resp.status_code = 200 /\ ~IsJson(resp.text)
           THEN \* scba_alerts.json() raises (line 452)
                /\ loc' = [loc EXCEPT ![r] = [exception |-> "Expecting value"] @@ @]
                /\ pc' = [pc EXCEPT ![r] = "raised"]
                /\ UNCHANGED session
           ELSE LET error_data == after_login_failed_data(loc[r].error_data, resp) IN
                /\ loc' = [loc EXCEPT ![r] = [error_data |-> error_data] @@ @]
                /\ session' = [session EXCEPT ![r] =
                                set_last_scrape(session_add(@, error_data), now)]
                /\ pc' = [pc EXCEPT ![r] = "login_failed_commit"]
    /\ UNCHANGED <<Task, User, Alert, tasks, now, ScrapeConfig, ScrapeData, emitted, http_response,
                   job_log, fetched>>

\* db.session.commit(): one transaction with the INSERTs and the UPDATE
commit(r) ==
    /\ ScrapeData' = insert_all(ScrapeData, session[r].new, now)
    /\ ScrapeConfig' = update_config(ScrapeConfig, session[r], now)
    /\ session' = [session EXCEPT ![r] = [@ EXCEPT !.new = <<>>, !.modified = {}]]
    /\ loc' = [loc EXCEPT ![r] =
                [scrape_data_id |-> Len(ScrapeData) + Len(session[r].new)] @@ @]

\* scraper.py 457-458
LoginFailedCommit(r) ==
    /\ pc[r] = "login_failed_commit"
    /\ commit(r)
    /\ pc' = [pc EXCEPT ![r] = "returned"]
    /\ UNCHANGED <<Task, User, Alert, tasks, now, sent, emitted, http_response, job_log, fetched>>

\* scraper.py 460-507: the data request after a successful login, the
\* envelope, and the session changes up to the commit
GetAlerts(r) ==
    /\ pc[r] = "get_alerts"
    /\ LET url == alerts_url(loc[r].base_url) IN
       \E resp \in DataAnswers(url) :
        /\ sent' = [sent EXCEPT ![r] = Append(@, Request("POST", url))]
        /\ IF resp.exc # "none"
           THEN \* getSCBAAlerts raises (line 470)
                /\ loc' = [loc EXCEPT ![r] =
                            [target_url |-> target_url_of(loc[r].login_result),
                             exception |-> "Request error: " \o resp.msg] @@ @]
                /\ pc' = [pc EXCEPT ![r] = "raised"]
                /\ UNCHANGED session
           ELSE LET data == alerts_data(resp, loc[r].base_url, now) IN
                /\ loc' = [loc EXCEPT ![r] =
                            [target_url |-> target_url_of(loc[r].login_result),
                             data |-> data] @@ @]
                /\ session' = [session EXCEPT ![r] =
                                set_last_scrape(session_add(@, data), now)]
                /\ pc' = [pc EXCEPT ![r] = "commit"]
    /\ UNCHANGED <<Task, User, Alert, tasks, now, ScrapeConfig, ScrapeData, emitted, http_response,
                   job_log, fetched>>

\* scraper.py 508
Commit(r) ==
    /\ pc[r] = "commit"
    /\ commit(r)
    /\ pc' = [pc EXCEPT ![r] = "emit"]
    /\ UNCHANGED <<Task, User, Alert, tasks, now, sent, emitted, http_response, job_log, fetched>>

\* socketio_events.py 37-39: emit_scrape_update(data)
emit_scrape_update(events, data) ==
    Append(events, [event |-> "scrape_update", payload |-> data])

\* scraper.py 511-513
Emit(r) ==
    /\ pc[r] = "emit"
    /\ emitted' = emit_scrape_update(emitted, loc[r].data)
    /\ pc' = [pc EXCEPT ![r] = "returned"]
    /\ UNCHANGED <<Task, User, Alert, tasks, now, ScrapeConfig, ScrapeData, loc, session, sent,
                   http_response, job_log, fetched>>

\* routes.py 365-371: what trigger_scrape answers
trigger_response(raised, exception) ==
    IF raised
    THEN [status |-> 500, success |-> FALSE, error |-> exception]
    ELSE [status |-> 200, success |-> TRUE, message |-> "Scrape triggered"]

\* routes.py 366-371: run_scrape() returned or raised
TriggerScrapeEnd ==
    /\ pc[Manual] \in {"returned", "raised"}
    /\ http_response' = trigger_response(pc[Manual] = "raised",
                                         Get(loc[Manual], "exception"))
    /\ session' = [session EXCEPT ![Manual] = NoSession]
    /\ loc' = [loc EXCEPT ![Manual] = [handler |-> Manual]]
    /\ pc' = [pc EXCEPT ![Manual] = "done"]
    /\ UNCHANGED <<Task, User, Alert, tasks, now, ScrapeConfig, ScrapeData, sent, emitted, job_log, fetched>>

\* tasks.py 55-59: perform_scrape returned, or raised into the except clause
ScheduledScrapeEnd ==
    /\ pc[Scheduled] \in {"returned", "raised"}
    /\ job_log' = IF pc[Scheduled] = "raised"
                  THEN Append(job_log, "Error in scheduled scrape: "
                                       \o loc[Scheduled].exception)
                  ELSE job_log
    /\ session' = [session EXCEPT ![Scheduled] = NoSession]
    /\ loc' = [loc EXCEPT ![Scheduled] = [handler |-> Scheduled]]
    /\ pc' = [pc EXCEPT ![Scheduled] = "done"]
    /\ UNCHANGED <<Task, User, Alert, tasks, now, ScrapeConfig, ScrapeData, sent, emitted, http_response,
                   fetched>>

Next ==
    \/ Tick
    \/ ScrapeDataCall
    \/ ScrapeDataReturn
    \/ \E r \in Runs : Begin(r)
    \/ \E r \in Runs : Guard(r)
    \/ \E r \in Runs : LoginGet(r)
    \/ \E r \in Runs : LoginPost(r)
    \/ \E r \in Runs : LoginFailedBranch(r)
    \/ \E r \in Runs : LoginFailedCommit(r)
    \/ \E r \in Runs : GetAlerts(r)
    \/ \E r \in Runs : Commit(r)
    \/ \E r \in Runs : Emit(r)
    \/ TriggerScrapeEnd
    \/ ScheduledScrapeEnd

Spec == Init /\ [][Next]_vars

-----------------------------------------------------------------------------
(* Vocabulary of the properties *)

PassedGuard(r) == "username" \in DOMAIN loc[r]
LoginFailed(r) == "login_success" \in DOMAIN loc[r] /\ ~loc[r].login_success
LoginSucceeded(r) == "login_success" \in DOMAIN loc[r] /\ loc[r].login_success
Ended(r) == pc[r] \in {"returned", "raised"}
Stored(r) == "scrape_data_id" \in DOMAIN loc[r]
StoredData(r) == get_data(RowOf(ScrapeData, loc[r].scrape_data_id))
DataRequests(r) == {i \in 1..Len(sent[r]) : IsDataRequest(sent[r][i])}
Moved(r) == pc'[r] # pc[r]

\* the credential record cannot be used: the cases of the guard, in the
\* words of the specification
NoUsableCredentials ==
    \/ Len(ScrapeConfig) = 0
    \/ ScrapeConfig[1].pstrax_username \in {None, ""}
    \/ ScrapeConfig[1].pstrax_password_encrypted.kind = "None"
    \/ /\ ScrapeConfig[1].pstrax_password_encrypted.kind = "fernet"
       /\ ScrapeConfig[1].pstrax_password_encrypted.key # CurrentKey

-----------------------------------------------------------------------------
(* C1..C10: the scrape orchestrator *)

\* C1: after a failed login the run sends no data request to the site, and
\* when perform_scrape has ended it has stored one record, of status 'error'.
C1_LoginFailureStoresErrorWithoutFetch ==
    \A r \in Runs :
        LoginFailed(r) =>
            /\ DataRequests(r) = {}
            /\ Ended(r) => (pc[r] = "returned" /\ Stored(r)
                            /\ StoredData(r).status = "error")

\* C2: a run that passed the credential guard and has ended has stored its
\* record; a failed data request gives a stored 'error' record, not an
\* exception out of perform_scrape.
C2_EveryGuardedRunPersists ==
    \A r \in Runs :
        (PassedGuard(r) /\ Ended(r)) => (pc[r] = "returned" /\ Stored(r))

\* C3: with no usable credentials the call of perform_scrape returns at the
\* guard, and that call creates no record, writes nothing to the credential
\* record, sends nothing to the site and emits nothing.
C3_SkippedRunChangesNothing ==
    [][\A r \in Runs :
        (pc[r] = "perform_scrape" /\ Moved(r) /\ NoUsableCredentials) =>
            /\ pc'[r] = "returned"
            /\ ScrapeData' = ScrapeData
            /\ ScrapeConfig' = ScrapeConfig
            /\ sent' = sent
            /\ emitted' = emitted
            /\ session'[r] = NoSession]_vars

C3_Witness ==
    \E r \in Runs :
        /\ pc[r] = "returned"
        /\ ~PassedGuard(r)
        /\ Len(ScrapeConfig) = 1
        /\ Truthy(ScrapeConfig[1].pstrax_username)
        /\ ScrapeConfig[1].pstrax_password_encrypted.kind = "fernet"
        /\ ScrapeConfig[1].pstrax_password_encrypted.key = RotatedKey

\* C4: a step stores a new record exactly when it writes last_scrape, and it
\* writes the value the storing run set: the record and the timestamp are
\* one commit on the success path and on the login-failure path.
C4_RecordAndLastScrapeInOneCommit ==
    [][/\ (Len(ScrapeData') # Len(ScrapeData)) =>
            \E r \in Runs :
                /\ Moved(r)
                /\ Len(ScrapeData') = Len(ScrapeData) + 1
                /\ "last_scrape" \in session[r].modified
                /\ session[r].config.last_scrape # NoTime
                /\ RowOf(ScrapeConfig', session[r].config.id).last_scrape
                       = session[r].config.last_scrape
       /\ (ScrapeConfig' # ScrapeConfig) => Len(ScrapeData') = Len(ScrapeData) + 1
      ]_vars

C4_Witness ==
    \E r \in Runs :
        /\ pc[r] = "returned" /\ LoginFailed(r) /\ Stored(r)
        /\ ScrapeConfig[1].last_scrape # NoTime

\* C5: a run that has stored its record and returned has emitted a
\* scrape_update carrying that record.
C5_EveryStoredRecordIsPublished ==
    \A r \in Runs :
        (pc[r] = "returned" /\ Stored(r)) =>
            \E i \in 1..Len(emitted) :
                /\ emitted[i].event = "scrape_update"
                /\ emitted[i].payload = StoredData(r)

\* C6: every stored record and every envelope scrape_data returned has the
\* key 'data' exactly when its status is 'success'.
C6_DataIffSuccess ==
    /\ \A i \in 1..Len(ScrapeData) :
        ("data" \in DOMAIN get_data(ScrapeData[i]))
            <=> (get_data(ScrapeData[i]).status = "success")
    /\ fetched # NoEnvelope =>
        (("data" \in DOMAIN fetched) <=> (fetched.status = "success"))

C6_Witness ==
    /\ \E i \in 1..Len(ScrapeData) :
        /\ get_data(ScrapeData[i]).status = "error"
        /\ "response_preview" \in DOMAIN get_data(ScrapeData[i])
    /\ \E i \in 1..Len(ScrapeData) : get_data(ScrapeData[i]).status = "success"

\* C7: the record stored after a failed login has status 'error', a reason
\* that mentions login, and the failure detail login returned, unchanged.
C7_LoginFailureDetailKept ==
    \A r \in Runs :
        (LoginFailed(r) /\ Stored(r)) =>
            /\ StoredData(r).status = "error"
            /\ Contains(lower(StoredData(r).error), "login")
            /\ StoredData(r).error_details = loc[r].login_result

\* C8: the data request of a run goes to the alerts_link of the login
\* result when there is one and to the default alerts path otherwise, and
\* the record stored is the envelope of that fetch.
C8_FetchTargetsAlertsLink ==
    \A r \in Runs :
        (LoginSucceeded(r) /\ DataRequests(r) # {}) =>
            LET req == sent[r][CHOOSE i \in DataRequests(r) : TRUE]
                link == Get(loc[r].login_result, "alerts_link")
            IN /\ Cardinality(DataRequests(r)) = 1
               /\ IF Truthy(link) THEN StartsWith(req.url, link)
                  ELSE StartsWith(req.url, alerts_url(loc[r].base_url))
               /\ Stored(r) => StoredData(r) = loc[r].data

\* the manual run failed: login failed, the envelope is an error, or
\* perform_scrape raised
RunFailed(r) ==
    \/ pc[r] = "raised"
    \/ LoginFailed(r)
    \/ "data" \in DOMAIN loc[r] /\ loc[r].data.status = "error"

\* C9: the answer of the manual trigger reports failure with a reason when
\* the run failed and success only when it did not fail.
C9_TriggerSurfacesOutcome ==
    [][(Ended(Manual) /\ pc'[Manual] = "done") =>
        /\ RunFailed(Manual) => (~http_response'.success
                                 /\ Truthy(Get(http_response', "error")))
        /\ http_response'.success => ~RunFailed(Manual)]_vars

\* handler r passed the guard and ran to its end without an exception
Completed(r) ==
    /\ pc[r] = "done"
    /\ Len(sent[r]) > 0
    /\ IF r = Manual THEN http_response.status = 200 ELSE job_log = <<>>

\* C10: when the manual run and the scheduled run have both completed, two
\* records were added, whatever the interleaving; a commit appends the
\* committing run's own record and no step changes or removes a stored one.
C10_EachRunAppendsItsOwnRecord ==
    /\ []((\A r \in Runs : Completed(r)) =>
            /\ Len(ScrapeData) = 2
            /\ ScrapeData[1].id # ScrapeData[2].id)
    /\ [][/\ \A i \in 1..Len(ScrapeData) :
                i <= Len(ScrapeData') /\ ScrapeData'[i] = ScrapeData[i]
          /\ \A r \in Runs :
                (session[r].new # <<>> /\ session'[r].new = <<>>) =>
                    /\ Len(ScrapeData') = Len(ScrapeData) + 1
                    /\ ScrapeData'[Len(ScrapeData')].data = Head(session[r].new)
         ]_vars

\* both runs completed, and the run that committed second had built its
\* envelope before the first one committed: the runs overlapped
C10_Witness ==
    /\ \A r \in Runs : Completed(r)
    /\ Len(ScrapeData) = 2
    /\ get_data(ScrapeData[2]).scraped_at < ScrapeData[1].scraped_at

\* C12: Scrape Records are append-only: no step of a run, of the scheduled
\* job or of a request modifies or deletes a stored record; every stored
\* record is still there afterwards under its id, with the data and the
\* time it was written with, and no two records share an id
C12_ScrapeRecordsAppendOnly ==
    /\ [](\A i, j \in 1..Len(ScrapeData) :
            ScrapeData[i].id = ScrapeData[j].id => i = j)
    /\ [][/\ Len(ScrapeData') >= Len(ScrapeData)
          /\ \A i \in 1..Len(ScrapeData) :
                \E j \in 1..Len(ScrapeData') :
                    /\ ScrapeData'[j].id = ScrapeData[i].id
                    /\ ScrapeData'[j].data = ScrapeData[i].data
                    /\ ScrapeData'[j].scraped_at = ScrapeData[i].scraped_at]_vars

\* a record written at time 0 is still stored when a later run has written
\* its own at time 1 and the handlers have ended
C12_Witness ==
    /\ Len(ScrapeData) = 2
    /\ ScrapeData[1].scraped_at = 0
    /\ ScrapeData[2].scraped_at = 1
    /\ \A r \in Runs : pc[r] = "done"

\* C26: the Credential Record's last_scrape never moves backwards: every
\* committed value is greater than or equal to the one it replaces,
\* however the manual and the scheduled run overlap
C26_LastScrapeNeverMovesBack ==
    [][\A i \in 1..Len(ScrapeConfig) :
        ScrapeConfig'[i].last_scrape >= ScrapeConfig[i].last_scrape]_vars

-----------------------------------------------------------------------------
(* routes.py 180-243: the settings page and the settings update, handled   *)
(* by two requests that may overlap                                        *)

Requests == {"request-1", "request-2"}

\* s.strip()
RECURSIVE strip(_)
strip(s) ==
    IF Len(s) > 0 /\ SubSeq(s, 1, 1) = " " THEN strip(SubSeq(s, 2, Len(s)))
    ELSE IF Len(s) > 0 /\ SubSeq(s, Len(s), Len(s)) = " "
         THEN strip(SubSeq(s, 1, Len(s) - 1))
    ELSE s

\* int(s) of line 229: [ok |-> FALSE] stands for ValueError
int(s) ==
    LET Digits == "0123456789"
        IsDigit(c) == \E i \in 1..Len(Digits) : SubSeq(Digits, i, i) = c
        DigitValue(c) == (CHOOSE i \in 1..Len(Digits) : SubSeq(Digits, i, i) = c) - 1
        RECURSIVE DigitsValue(_, _)
        DigitsValue(d, acc) ==
            IF Len(d) = 0 THEN acc
            ELSE IF acc > MaxInt THEN MaxInt + 1
            ELSE DigitsValue(SubSeq(d, 2, Len(d)),
                             10 * acc + DigitValue(SubSeq(d, 1, 1)))
        t == strip(s)
        signed == Len(t) > 0 /\ SubSeq(t, 1, 1) \in {"-", "+"}
        digits == IF signed THEN SubSeq(t, 2, Len(t)) ELSE t
    IN
    IF Len(digits) > 0 /\ \A i \in 1..Len(digits) : IsDigit(SubSeq(digits, i, i))
    THEN [ok |-> TRUE,
          value |-> IF signed /\ SubSeq(t, 1, 1) = "-"
                    THEN 0 - DigitsValue(digits, 0) ELSE DigitsValue(digits, 0)]
    ELSE [ok |-> FALSE]

\* what the browser posts to /settings/update; valid is validate_on_submit()
Forms ==
    [valid : BOOLEAN,
     pstrax_base_url : {"", " pstrax.com"},
     pstrax_username : {"alice"},
     pstrax_password : {"", "hunter2"},
     scrape_interval : {"", "5", "0", "abc", "10000000000000"}]

\* ScrapeConfig(): an object with no attribute set, not yet in the table
NewConfig == [id |-> NoRow]

\* 'not config.<column>' for an object that may not have the attribute yet
Unset(config, column) == ~Truthy(Get(config, column))

\* INSERT of a new ScrapeConfig object: the id is the next autoincrement
\* value, the columns the object does not set take the defaults of
\* models/scrape_config.py 10-16
insert_config(table, config, t) ==
    LET column(c, default) == IF c \in DOMAIN config THEN config[c] ELSE default IN
    Append(table,
           [id |-> Len(table) + 1,
            pstrax_base_url |-> column("pstrax_base_url", SiteUrl),
            pstrax_username |-> column("pstrax_username", None),
            pstrax_password_encrypted |-> column("pstrax_password_encrypted", NoToken),
            last_scrape |-> NoTime,
            scrape_interval |-> column("scrape_interval", 15),
            updated_at |-> t])

\* config.<column> = value on the object of a session
set_column(s, column, value) ==
    [s EXCEPT !.config = [c \in DOMAIN @ \cup {column} |->
                            IF c = column THEN value ELSE @[c]],
              !.modified = @ \cup {column}]

\* db.session.commit() of a session that holds a ScrapeConfig object
commit_config(table, s, t) ==
    IF s.config.id = NoRow THEN insert_config(table, s.config, t)
    ELSE update_config(table, s, t)

\* lines 207-233: the session of update_settings before its commit, and
\* whether the handler goes on to the commit
update_settings(table, form) ==
    LET base_url == strip(form.pstrax_base_url)
        with_protocol == IF base_url # "" /\ ~StartsWith(base_url, "http://")
                            /\ ~StartsWith(base_url, "https://")
                         THEN "https://" \o base_url ELSE base_url
        form_base_url == IF with_protocol # "" THEN with_protocol ELSE SiteUrl
        s0 == IF first(table) = NoRow
              THEN [config |-> NewConfig, new |-> <<>>, modified |-> {}]
              ELSE [config |-> RowOf(table, first(table)), new |-> <<>>,
                    modified |-> {}]
        s1 == IF Unset(s0.config, "pstrax_base_url")
              THEN set_column(s0, "pstrax_base_url", SiteUrl) ELSE s0
        s2 == IF form.pstrax_base_url # ""
              THEN set_column(s1, "pstrax_base_url", form_base_url) ELSE s1
        s3 == set_column(s2, "pstrax_username", form.pstrax_username)
        s4 == IF form.pstrax_password # ""
              THEN set_column(s3, "pstrax_password_encrypted",
                              set_password(form.pstrax_password))
              ELSE s3
        interval == int(form.scrape_interval)
        s5 == IF form.scrape_interval # "" /\ interval.ok
              THEN set_column(s4, "scrape_interval", interval.value) ELSE s4
    IN
    IF ~form.valid THEN [commits |-> FALSE, session |-> s1, flash |-> "Error updating settings."]
    ELSE IF form.scrape_interval # "" /\ ~interval.ok
         THEN [commits |-> FALSE, session |-> s4, flash |-> "Invalid scrape interval."]
    ELSE [commits |-> TRUE, session |-> s5, flash |-> "Settings updated successfully!"]

InitSettings ==
    /\ now = 0
    /\ ScrapeConfig \in ConfigTables
    /\ ScrapeData = <<>>
    /\ pc = [q \in Requests |-> "idle"]
    /\ loc = [q \in Requests |-> [handler |-> None]]
    /\ session = [q \in Requests |-> NoSession]
    /\ sent = <<>>
    /\ emitted = <<>>
    /\ http_response = NoResponse
    /\ job_log = <<>>
    /\ fetched = NoEnvelope
    /\ Alert = <<>>
    /\ tasks = NotStarted
    /\ Task = <<>>
    /\ User = <<>>

\* run.py 10-13 and wsgi.py 14-16: before the first request is served
StartBackgroundTasks ==
    /\ ~tasks._app
    /\ tasks' = start_background_tasks(tasks, ScrapeConfig, now)
    /\ UNCHANGED <<Task, User, now, ScrapeConfig, ScrapeData, pc, loc, session, sent, emitted,
                   http_response, job_log, fetched, Alert>>

\* GET /settings, lines 184-187: the query, and the add when there is no row
SettingsQuery(q) ==
    /\ tasks._app
    /\ pc[q] = "idle"
    /\ loc' = [loc EXCEPT ![q] = [handler |-> "settings"]]
    /\ IF first(ScrapeConfig) = NoRow
       THEN /\ session' = [session EXCEPT ![q] =
                            [config |-> NewConfig, new |-> <<>>, modified |-> {}]]
            /\ pc' = [pc EXCEPT ![q] = "settings_commit"]
       ELSE /\ session' = [session EXCEPT ![q] =
                            [config |-> RowOf(ScrapeConfig, first(ScrapeConfig)),
                             new |-> <<>>, modified |-> {}]]
            /\ pc' = [pc EXCEPT ![q] = "settings_render"]
    /\ UNCHANGED <<Task, User, now, ScrapeConfig, ScrapeData, sent, emitted, http_response,
                   job_log, fetched, Alert, tasks>>

\* line 188: the commit that inserts the new row; the object is reloaded
SettingsCommit(q) ==
    /\ pc[q] = "settings_commit"
    /\ ScrapeConfig' = commit_config(ScrapeConfig, session[q], now)
    /\ session' = [session EXCEPT ![q] =
                    [config |-> ScrapeConfig'[Len(ScrapeConfig')], new |-> <<>>,
                     modified |-> {}]]
    /\ pc' = [pc EXCEPT ![q] = "settings_render"]
    /\ UNCHANGED <<Task, User, now, ScrapeData, loc, sent, emitted, http_response, job_log,
                   fetched, Alert, tasks>>

\* lines 190-200: the base URL is filled in when empty, the form is rendered
SettingsRender(q) ==
    /\ pc[q] = "settings_render"
    /\ LET s == IF Unset(session[q].config, "pstrax_base_url")
                THEN set_column(session[q], "pstrax_base_url", SiteUrl)
                ELSE session[q]
       IN /\ ScrapeConfig' = commit_config(ScrapeConfig, s, now)
          /\ loc' = [loc EXCEPT ![q] =
                      [handler |-> "settings",
                       form |-> [pstrax_base_url |-> s.config.pstrax_base_url,
                                 pstrax_username |-> s.config.pstrax_username,
                                 scrape_interval |-> ToString(s.config.scrape_interval)]]]
    /\ session' = [session EXCEPT ![q] = NoSession]
    /\ pc' = [pc EXCEPT ![q] = "done"]
    /\ UNCHANGED <<Task, User, now, ScrapeData, sent, emitted, http_response, job_log,
                   fetched, Alert, tasks>>

\* POST /settings/update, lines 207-233 and 242-243: everything before the
\* commit, and the redirect of a form that is not accepted
UpdateSettings(q) ==
    /\ tasks._app
    /\ pc[q] = "idle"
    /\ \E form \in Forms :
        LET u == update_settings(ScrapeConfig, form) IN
        /\ loc' = [loc EXCEPT ![q] = [handler |-> "update_settings", form |-> form,
                                      flash |-> u.flash]]
        /\ IF u.commits
           THEN /\ session' = [session EXCEPT ![q] = u.session]
                /\ pc' = [pc EXCEPT ![q] = "update_settings_commit"]
           ELSE /\ session' = [session EXCEPT ![q] = NoSession]
                /\ pc' = [pc EXCEPT ![q] = "done"]
    /\ UNCHANGED <<Task, User, now, ScrapeConfig, ScrapeData, sent, emitted, http_response,
                   job_log, fetched, Alert, tasks>>

\* line 234
UpdateSettingsCommit(q) ==
    /\ pc[q] = "update_settings_commit"
    /\ ScrapeConfig' = commit_config(ScrapeConfig, session[q], now)
    /\ session' = [session EXCEPT ![q] = NoSession]
    /\ pc' = [pc EXCEPT ![q] = "update_scrape_schedule"]
    /\ UNCHANGED <<Task, User, now, ScrapeData, loc, sent, emitted, http_response, job_log,
                   fetched, Alert, tasks>>

\* lines 237-240: update_scrape_schedule() and the redirect
UpdateScrapeSchedule(q) ==
    /\ pc[q] = "update_scrape_schedule"
    /\ tasks' = update_scrape_schedule(tasks, ScrapeConfig, now)
    /\ pc' = [pc EXCEPT ![q] = "done"]
    /\ UNCHANGED <<Task, User, now, ScrapeConfig, ScrapeData, loc, session, sent, emitted,
                   http_response, job_log, fetched, Alert>>

NextSettings ==
    \/ StartBackgroundTasks
    \/ \E q \in Requests : SettingsQuery(q)
    \/ \E q \in Requests : SettingsCommit(q)
    \/ \E q \in Requests : SettingsRender(q)
    \/ \E q \in Requests : UpdateSettings(q)
    \/ \E q \in Requests : UpdateSettingsCommit(q)
    \/ \E q \in Requests : UpdateScrapeSchedule(q)

SpecSettings == InitSettings /\ [][NextSettings]_vars

\* C11: at most one Credential Record exists in every reachable state, also
\* when two settings requests overlap while the table is empty
C11_AtMostOneCredentialRecord == Len(ScrapeConfig) <= 1

\* C13: when update_scrape_schedule has been called after the interval was
\* set to n minutes, the scheduler holds exactly one job 'scheduled_scrape',
\* its period is n minutes, and 'check_alerts' is there with its period of
\* one minute
C13_RescheduledJobHasConfiguredPeriod ==
    [][\A q \in Requests :
        (pc[q] = "update_scrape_schedule" /\ pc'[q] = "done") =>
            LET n == RowOf(ScrapeConfig, first(ScrapeConfig)).scrape_interval
                jobs == tasks'.jobs
            IN /\ Cardinality({i \in 1..Len(jobs) : jobs[i].id = "scheduled_scrape"}) = 1
               /\ \A i \in 1..Len(jobs) :
                    jobs[i].id = "scheduled_scrape" => jobs[i].seconds = 60 * n
               /\ Cardinality({i \in 1..Len(jobs) : jobs[i].id = "check_alerts"}) = 1
               /\ \A i \in 1..Len(jobs) :
                    jobs[i].id = "check_alerts" => jobs[i].seconds = 60]_vars

\* C25: once start_background_tasks has run, a job with id
\* 'scheduled_scrape' is registered in every reachable state, also when
\* update_scrape_schedule could not register the replacement of the job it
\* removed
C25_ScrapeJobAlwaysRegistered ==
    tasks._app =>
        \E i \in 1..Len(tasks.jobs) : tasks.jobs[i].id = "scheduled_scrape"

-----------------------------------------------------------------------------
(* A scheduled run of perform_scrape and a settings update in one process  *)

InitRunAndSettings ==
    /\ now = 0
    /\ ScrapeConfig \in ConfigTables
    /\ ScrapeData = <<>>
    /\ pc = [p \in {Scheduled, "request-1"} |-> "idle"]
    /\ loc = [p \in {Scheduled, "request-1"} |->
                IF p = Scheduled THEN [handler |-> p] ELSE [handler |-> None]]
    /\ session = [p \in {Scheduled, "request-1"} |-> NoSession]
    /\ sent = [r \in {Scheduled} |-> <<>>]
    /\ emitted = <<>>
    /\ http_response = NoResponse
    /\ job_log = <<>>
    /\ fetched = NoEnvelope
    /\ Alert = <<>>
    /\ tasks = start_background_tasks(NotStarted, ScrapeConfig, now)
    /\ Task = <<>>
    /\ User = <<>>

NextRunAndSettings ==
    \/ Tick
    \/ Begin(Scheduled)
    \/ Guard(Scheduled)
    \/ LoginGet(Scheduled)
    \/ LoginPost(Scheduled)
    \/ LoginFailedBranch(Scheduled)
    \/ LoginFailedCommit(Scheduled)
    \/ GetAlerts(Scheduled)
    \/ Commit(Scheduled)
    \/ Emit(Scheduled)
    \/ ScheduledScrapeEnd
    \/ UpdateSettings("request-1")
    \/ UpdateSettingsCommit("request-1")
    \/ UpdateScrapeSchedule("request-1")

SpecRunAndSettings == InitRunAndSettings /\ [][NextRunAndSettings]_vars

\* the run commits in this step
RunCommits == pc[Scheduled] \in {"commit", "login_failed_commit"} /\ Moved(Scheduled)

\* every column of the Credential Record outside kept is as it was
OnlyChanges(kept) ==
    \A i \in 1..Len(ScrapeConfig) : \A c \in DOMAIN ScrapeConfig[i] \ kept :
        ScrapeConfig'[i][c] = ScrapeConfig[i][c]

\* C27 as stated: a run changes only last_scrape on the Credential Record
C27_RunChangesOnlyLastScrape ==
    [][RunCommits => OnlyChanges({"last_scrape"})]_vars

\* C27: a run changes only last_scrape and, through its onupdate, updated_at
\* on the Credential Record: base URL, username, encrypted password and
\* interval are as they were before the run's commit, those of a settings
\* update committed while the run was in flight included
C27_RunChangesOnlyLastScrapeAndUpdatedAt ==
    [][RunCommits => OnlyChanges({"last_scrape", "updated_at"})]_vars

\* the run has committed after a settings update that was committed while
\* the run was in flight, and the record has the update's base URL
C27_Witness ==
    /\ pc[Scheduled] = "returned" /\ Stored(Scheduled)
    /\ pc["request-1"] = "done"
    /\ loc["request-1"].flash = "Settings updated successfully!"
    /\ ScrapeConfig[1].last_scrape # NoTime
    /\ ScrapeConfig[1].pstrax_base_url = "https://pstrax.com"
    /\ session[Scheduled].config.pstrax_base_url = "https://pstrax.com/"

-----------------------------------------------------------------------------
(* The deployment of gunicorn_config.py: several worker processes, each of *)
(* which imports wsgi.py and so has its own scheduler; a request is served *)
(* by one of them                                                          *)

Workers == {"worker-1", "worker-2"}

InitWorkers ==
    /\ now = 0
    /\ ScrapeConfig = <<ConfigRow("https://pstrax.com/", "alice", set_password("secret"))>>
    /\ ScrapeData = <<>>
    /\ pc = [w \in Workers |-> "boot"]
    /\ loc = [w \in Workers |-> [handler |-> None]]
    /\ session = [w \in Workers |-> NoSession]
    /\ sent = <<>>
    /\ emitted = <<>>
    /\ http_response = NoResponse
    /\ job_log = <<>>
    /\ fetched = NoEnvelope
    /\ Alert = <<>>
    /\ tasks = [w \in Workers |-> NotStarted]
    /\ Task = <<>>
    /\ User = <<>>

\* wsgi.py 14-16 in worker w
WorkerBoot(w) ==
    /\ pc[w] = "boot"
    /\ tasks' = [tasks EXCEPT ![w] = start_background_tasks(@, ScrapeConfig, now)]
    /\ pc' = [pc EXCEPT ![w] = "idle"]
    /\ UNCHANGED <<Task, User, now, ScrapeConfig, ScrapeData, loc, session, sent, emitted,
                   http_response, job_log, fetched, Alert>>

\* POST /settings/update served by worker w, routes.py 203-243: the form
\* leaves base URL and password as they are
WorkerUpdateSettings(w) ==
    /\ pc[w] = "idle"
    /\ \E form \in {f \in Forms : f.pstrax_base_url = "" /\ f.pstrax_password = ""} :
        LET u == update_settings(ScrapeConfig, form) IN
        /\ loc' = [loc EXCEPT ![w] = [handler |-> "update_settings", form |-> form,
                                      flash |-> u.flash]]
        /\ IF u.commits
           THEN /\ ScrapeConfig' = commit_config(ScrapeConfig, u.session, now)
                /\ tasks' = [tasks EXCEPT ![w] =
                                update_scrape_schedule(@, ScrapeConfig', now)]
           ELSE UNCHANGED <<ScrapeConfig, tasks>>
    /\ pc' = [pc EXCEPT ![w] = "done"]
    /\ UNCHANGED <<Task, User, now, ScrapeData, session, sent, emitted, http_response,
                   job_log, fetched, Alert>>

\* the redirect has been sent
WorkerRespond(w) ==
    /\ pc[w] = "done"
    /\ pc' = [pc EXCEPT ![w] = "idle"]
    /\ loc' = [loc EXCEPT ![w] = [handler |-> None]]
    /\ UNCHANGED <<Task, User, now, ScrapeConfig, ScrapeData, session, sent, emitted,
                   http_response, job_log, fetched, Alert, tasks>>

NextWorkers ==
    \/ Tick
    \/ \E w \in Workers : WorkerBoot(w)
    \/ \E w \in Workers : WorkerUpdateSettings(w)
    \/ \E w \in Workers : WorkerRespond(w)

SpecWorkers == InitWorkers /\ [][NextWorkers]_vars

\* worker w serves a settings update to its end in this step
UpdatesSettings(w) == pc[w] = "idle" /\ pc'[w] = "done"

\* C28: a settings update that leaves the interval unchanged does not
\* remove or re-create the scrape job and does not reset the time its runs
\* are counted from
C28_UnchangedIntervalKeepsJob ==
    [][\A w \in Workers :
        (UpdatesSettings(w)
         /\ ScrapeConfig'[1].scrape_interval = ScrapeConfig[1].scrape_interval)
            => tasks'[w].jobs = tasks[w].jobs]_vars

\* C29: after a settings update every registered 'scheduled_scrape' job of
\* the deployment has the period of the Credential Record's interval,
\* whichever worker served the update
C29_EveryWorkersJobHasConfiguredPeriod ==
    [][\A w \in Workers :
        (UpdatesSettings(w) /\ loc'[w].flash = "Settings updated successfully!") =>
            \A v \in Workers : \A i \in 1..Len(tasks'[v].jobs) :
                tasks'[v].jobs[i].id = "scheduled_scrape" =>
                    tasks'[v].jobs[i].seconds = 60 * ScrapeConfig'[1].scrape_interval]_vars

-----------------------------------------------------------------------------
(* tasks.py 17-59: the two jobs as the scheduler fires them.  The steps of *)
(* perform_scrape are the run Scheduled of Spec; here scheduled_scrape     *)
(* only meets its outcome.                                                 *)

MaxRuns == 2        \* each job is fired at most this many times

Jobs == {"check_alerts", "scheduled_scrape"}

\* what the database, the network and the JSON parser raise
Exceptions == {"ConnectionError", "JSONDecodeError"}

\* an except clause that catches requests.RequestException only
except_RequestException(e) == e = "ConnectionError"

\* 'except Exception' of lines 46 and 58
except_Exception(e) == TRUE

\* line 42 taken for every alert: the flag counts as changed in every tick
flipped_Always(was_active, is_active) == TRUE

\* line 42
flipped(was_active, is_active) == was_active # is_active

\* lines 33-39: the value check_alerts gives alert.is_active at time t
should_be_active(alert, t) ==
    LET start_time == IF alert.start_time # NoTime THEN alert.start_time
                      ELSE alert.created_at
        end_time == alert.end_time
    IN start_time <= t /\ t <= end_time

\* Alert.to_dict, models/alert.py 15-25; isoformat() makes a string of a time
to_dict(alert) ==
    LET isoformat(t) == IF t = NoTime THEN None ELSE ToString(t) IN
    [id |-> alert.id, message |-> alert.message,
     start_time |-> isoformat(alert.start_time),
     end_time |-> isoformat(alert.end_time),
     is_active |-> alert.is_active, created_by |-> alert.created_by,
     created_at |-> isoformat(alert.created_at)]

\* emit_alert_update(alert_id), socketio_events.py 42-54; NoRow is None
emit_alert_update(events, table, alert_id) ==
    LET with_id == {i \in 1..Len(table) : table[i].id = alert_id}
        active == {i \in 1..Len(table) : table[i].is_active}
        first_of(S) == table[CHOOSE i \in S : \A k \in S : i <= k]
        event(payload) == [event |-> "alert_update", payload |-> payload]
    IN
    IF alert_id # NoRow
    THEN IF with_id # {} THEN Append(events, event(to_dict(first_of(with_id))))
         ELSE events
    ELSE IF active # {} THEN Append(events, event(to_dict(first_of(active))))
         ELSE Append(events, event([is_active |-> FALSE]))

\* the tables alert may hold: start_time is nullable, end_time is not
AlertTables ==
    LET AlertRows ==
            [id : {0}, message : {"evacuate"}, start_time : {NoTime, 1},
             end_time : {0, 1}, is_active : BOOLEAN, created_by : {1},
             created_at : {0}]
    IN {<<>>} \cup {<<[a EXCEPT !.id = 1]>> : a \in AlertRows}
              \cup {<<[a EXCEPT !.id = 1], [b EXCEPT !.id = 2]>> : a, b \in AlertRows}

\* the locals of a job that has not been fired yet
NotFired ==
    [runs |-> 0, now |-> NoTime, prev_now |-> NoTime, prev_ok |-> FALSE,
     i |-> 0, n |-> 0, failed |-> 0, commits |-> 0, emits |-> 0,
     exception |-> None]

InitAlerts ==
    /\ now = 0
    /\ ScrapeConfig = <<>>
    /\ ScrapeData = <<>>
    /\ pc = [j \in Jobs |-> "idle"]
    /\ loc = [j \in Jobs |-> NotFired]
    /\ session = [j \in Jobs |-> NoSession]
    /\ sent = <<>>
    /\ emitted = <<>>
    /\ http_response = NoResponse
    /\ job_log = <<>>
    /\ fetched = NoEnvelope
    /\ Alert \in AlertTables
    /\ tasks = start_background_tasks(NotStarted, ScrapeConfig, now)
    /\ Task = <<>>
    /\ User = <<>>

\* the scheduler fires job j: it is running, the job is registered, and
\* the job's previous instance has ended (max_instances is 1)
CanFire(j) ==
    /\ tasks._app /\ tasks.running
    /\ \E k \in 1..Len(tasks.jobs) : tasks.jobs[k].id = j /\ tasks.jobs[k].func = j
    /\ pc[j] \in {"idle", "done"}

\* a job starts: the locals of the new tick keep how the previous one ended
Fired(l, t) ==
    [NotFired EXCEPT !.runs = l.runs + 1, !.now = t, !.prev_now = l.now,
                     !.prev_ok = l.runs > 0 /\ l.exception = None]

\* check_alerts, lines 20-27: now is read and the alerts are queried
CheckAlertsBegin ==
    /\ CanFire("check_alerts")
    /\ loc["check_alerts"].runs < MaxRuns
    /\ \E raised \in {None, "OperationalError"} :
        /\ loc' = [loc EXCEPT !["check_alerts"] =
                    [Fired(@, now) EXCEPT !.i = 1,
                                          !.n = IF raised = None THEN Len(Alert) ELSE 0,
                                          !.exception = raised]]
        /\ pc' = [pc EXCEPT !["check_alerts"] =
                    IF raised = None THEN "for" ELSE "except"]
    /\ UNCHANGED <<Task, User, now, ScrapeConfig, ScrapeData, session, sent, emitted,
                   http_response, job_log, fetched, Alert, tasks>>

\* lines 29-42: one alert of the loop, up to the test of line 42
CheckAlert ==
    /\ pc["check_alerts"] = "for"
    /\ loc["check_alerts"].i <= loc["check_alerts"].n
    /\ LET alert == Alert[loc["check_alerts"].i]
           was_active == alert.is_active
           is_active == should_be_active(alert, loc["check_alerts"].now)
       IN IF flipped(was_active, is_active)
          THEN /\ session' = [session EXCEPT !["check_alerts"] =
                                [alert |-> alert.id, is_active |-> is_active]]
               /\ pc' = [pc EXCEPT !["check_alerts"] = "commit"]
               /\ loc' = loc
          ELSE /\ loc' = [loc EXCEPT !["check_alerts"].i = @ + 1]
               /\ UNCHANGED <<session, pc>>
    /\ UNCHANGED <<Task, User, now, ScrapeConfig, ScrapeData, sent, emitted, http_response,
                   job_log, fetched, Alert, tasks>>

\* line 43: db.session.commit() writes the flag, or raises and the session
\* is rolled back when the app context ends
CheckAlertCommit ==
    /\ pc["check_alerts"] = "commit"
    /\ \E raised \in {None, "OperationalError"} :
        IF raised = None
        THEN /\ Alert' = [k \in 1..Len(Alert) |->
                            IF Alert[k].id = session["check_alerts"].alert
                            THEN [Alert[k] EXCEPT !.is_active =
                                    session["check_alerts"].is_active]
                            ELSE Alert[k]]
             /\ loc' = [loc EXCEPT !["check_alerts"].commits = @ + 1]
             /\ pc' = [pc EXCEPT !["check_alerts"] = "emit"]
        ELSE /\ loc' = [loc EXCEPT !["check_alerts"].failed = loc["check_alerts"].i,
                                   !["check_alerts"].exception = raised]
             /\ pc' = [pc EXCEPT !["check_alerts"] = "except"]
             /\ Alert' = Alert
    /\ session' = [session EXCEPT !["check_alerts"] = NoSession]
    /\ UNCHANGED <<Task, User, now, ScrapeConfig, ScrapeData, sent, emitted, http_response,
                   job_log, fetched, tasks>>

\* lines 44-45: the change is published, the loop goes on
CheckAlertEmit ==
    /\ pc["check_alerts"] = "emit"
    /\ emitted' = emit_alert_update(emitted, Alert, Alert[loc["check_alerts"].i].id)
    /\ loc' = [loc EXCEPT !["check_alerts"].emits = @ + 1,
                          !["check_alerts"].i = @ + 1]
    /\ pc' = [pc EXCEPT !["check_alerts"] = "for"]
    /\ UNCHANGED <<Task, User, now, ScrapeConfig, ScrapeData, session, sent, http_response,
                   job_log, fetched, Alert, tasks>>

\* the loop is over: check_alerts returns
CheckAlertsReturn ==
    /\ pc["check_alerts"] = "for"
    /\ loc["check_alerts"].i > loc["check_alerts"].n
    /\ pc' = [pc EXCEPT !["check_alerts"] = "done"]
    /\ UNCHANGED <<Task, User, now, ScrapeConfig, ScrapeData, loc, session, sent, emitted,
                   http_response, job_log, fetched, Alert, tasks>>

\* lines 46-47: the except clause prints and the job returns
CheckAlertsExcept ==
    /\ pc["check_alerts"] = "except"
    /\ IF except_Exception(loc["check_alerts"].exception)
       THEN /\ job_log' = Append(job_log, "Error checking alerts: "
                                          \o loc["check_alerts"].exception)
            /\ pc' = [pc EXCEPT !["check_alerts"] = "done"]
       ELSE /\ pc' = [pc EXCEPT !["check_alerts"] = "propagated"]
            /\ job_log' = job_log
    /\ UNCHANGED <<Task, User, now, ScrapeConfig, ScrapeData, loc, session, sent, emitted,
                   http_response, fetched, Alert, tasks>>

\* scheduled_scrape, lines 53-59: perform_scrape returns or raises
ScheduledScrape ==
    /\ CanFire("scheduled_scrape")
    /\ loc["scheduled_scrape"].runs < MaxRuns
    /\ \E raised \in {None} \cup Exceptions :
        /\ loc' = [loc EXCEPT !["scheduled_scrape"] =
                    [Fired(@, NoTime) EXCEPT !.exception = raised]]
        /\ IF raised = None
           THEN /\ pc' = [pc EXCEPT !["scheduled_scrape"] = "done"]
                /\ job_log' = job_log
           ELSE IF except_Exception(raised)
           THEN /\ pc' = [pc EXCEPT !["scheduled_scrape"] = "done"]
                /\ job_log' = Append(job_log, "Error in scheduled scrape: " \o raised)
           ELSE /\ pc' = [pc EXCEPT !["scheduled_scrape"] = "propagated"]
                /\ job_log' = job_log
    /\ UNCHANGED <<Task, User, now, ScrapeConfig, ScrapeData, session, sent, emitted,
                   http_response, fetched, Alert, tasks>>

NextAlerts ==
    \/ Tick
    \/ CheckAlertsBegin
    \/ CheckAlert
    \/ CheckAlertCommit
    \/ CheckAlertEmit
    \/ CheckAlertsReturn
    \/ CheckAlertsExcept
    \/ ScheduledScrape

SpecAlerts == InitAlerts /\ [][NextAlerts]_vars

\* C14: in every tick of check_alerts that loaded the alerts, every alert is
\* evaluated, and afterwards its flag is (effective start <= now <= end),
\* bounds included, the effective start being start_time or else
\* created_at; a problem with one alert (its commit raising) leaves no
\* other alert of the tick unevaluated
C14_EveryAlertEvaluatedInEveryTick ==
    LET l == loc["check_alerts"] IN
    (pc["check_alerts"] = "done" /\ l.runs > 0 /\ l.n > 0) =>
        \A k \in 1..Len(Alert) :
            /\ k < l.i \/ k = l.failed
            /\ k # l.failed =>
                Alert[k].is_active = should_be_active(Alert[k], l.now)

\* a step that publishes is the emit of check_alerts for the alert whose
\* flip the same tick has already committed, and a step that writes a flag
\* is the commit of one alert's flip, which the emit follows
PublishesCommittedFlip ==
    LET l == loc["check_alerts"] IN
    /\ emitted' # emitted =>
        /\ pc["check_alerts"] = "emit"
        /\ l.commits = l.emits + 1
        /\ Alert[l.i].is_active = should_be_active(Alert[l.i], l.now)
        /\ emitted' = Append(emitted, [event |-> "alert_update",
                                       payload |-> to_dict(Alert[l.i])])
    /\ Alert' # Alert =>
        /\ pc["check_alerts"] = "commit" /\ pc'["check_alerts"] = "emit"
        /\ Len(Alert') = Len(Alert)
        /\ \A k \in 1..Len(Alert) :
            IF k = l.i
            THEN Alert'[k] = [Alert[k] EXCEPT !.is_active = ~Alert[k].is_active]
            ELSE Alert'[k] = Alert[k]

\* between two alerts and at the end of a tick, every flip the tick has
\* committed has been published
EveryCommittedFlipPublished ==
    pc["check_alerts"] \in {"idle", "for", "done", "except"} =>
        loc["check_alerts"].emits = loc["check_alerts"].commits

\* check_alerts is in its second or a later run, started at the clock
\* reading of the run before
RunsAgainAtSameTime ==
    /\ loc["check_alerts"].runs >= 2
    /\ loc["check_alerts"].prev_now = loc["check_alerts"].now

CommitsAndPublishesNothing ==
    /\ pc["check_alerts"] \notin {"commit", "emit"}
    /\ loc["check_alerts"].commits = 0
    /\ loc["check_alerts"].emits = 0

C16_JobsSwallowExceptions ==
    /\ \A j \in Jobs : pc[j] # "propagated"
    /\ \A j \in Jobs :
        (pc[j] = "done" /\ loc[j].exception # None) =>
            /\ job_log # <<>>
            /\ \A k \in Jobs : \E i \in 1..Len(tasks.jobs) : tasks.jobs[i].id = k
            /\ CanFire(j)

\* both jobs have failed in their first tick, check_alerts at a commit, and
\* both have run a second tick to its end
C16_Witness ==
    /\ \A j \in Jobs : pc[j] = "done" /\ loc[j].runs = 2 /\ ~loc[j].prev_ok
    /\ loc["check_alerts"].exception = None
    /\ loc["check_alerts"].commits >= 1
    /\ Len(job_log) = 2

-----------------------------------------------------------------------------
(* The functions of the scraper and of the credential record, each called  *)
(* on its own with the answers of the site and the inputs of the caller    *)

InitCalls ==
    /\ now = 0
    /\ ScrapeConfig \in ConfigTables \ {<<>>}
    /\ ScrapeData = <<>>
    /\ pc = "idle"
    /\ loc = [call |-> None]
    /\ session = NoSession
    /\ sent = <<>>
    /\ emitted = <<>>
    /\ http_response = NoResponse
    /\ job_log = <<>>
    /\ fetched = NoEnvelope
    /\ Alert = <<>>
    /\ tasks = NotStarted
    /\ Task = <<>>
    /\ User = <<>>

\* PstraxScraper.scrape_data(base_url, target_url), scraper.py 280-404
CallScrapeData ==
    /\ pc = "idle"
    /\ \E base_url \in BaseUrls, target_url \in TargetUrls :
        \E resp \in ScrapeDataAnswers(scrape_data_url(base_url, target_url)) :
            /\ fetched' = scrape_data(base_url, target_url, resp, now)
            /\ loc' = [call |-> "scrape_data", resp |-> resp]
    /\ pc' = "called"
    /\ UNCHANGED <<Task, User, now, ScrapeConfig, ScrapeData, session, sent, emitted,
                   http_response, job_log, Alert, tasks>>

\* perform_scrape, scraper.py 470-499: the envelope it builds from the
\* response getSCBAAlerts returned
CallAlertsData ==
    /\ pc = "idle"
    /\ \E base_url \in BaseUrls :
        \E resp \in ScrapeDataAnswers(alerts_url(base_url)) :
            /\ resp.exc = "none"
            /\ fetched' = alerts_data(resp, base_url, now)
            /\ loc' = [call |-> "perform_scrape", resp |-> resp]
    /\ pc' = "called"
    /\ UNCHANGED <<Task, User, now, ScrapeConfig, ScrapeData, session, sent, emitted,
                   http_response, job_log, Alert, tasks>>

\* config.set_password(password), models/scrape_config.py 34-40
CallSetPassword ==
    /\ pc = "idle"
    /\ \E password \in {None, "", "hunter2"} :
        /\ ScrapeConfig' = [ScrapeConfig EXCEPT ![1].pstrax_password_encrypted =
                                set_password(password)]
        /\ loc' = [call |-> "set_password", password |-> password]
    /\ pc' = "called"
    /\ UNCHANGED <<Task, User, now, ScrapeData, session, sent, emitted, http_response,
                   job_log, fetched, Alert, tasks>>

\* config.get_password(), models/scrape_config.py 42-50
CallGetPassword ==
    /\ pc = "idle"
    /\ loc' = [call |-> "get_password", result |-> get_password(ScrapeConfig[1])]
    /\ pc' = "called"
    /\ UNCHANGED <<Task, User, now, ScrapeConfig, ScrapeData, session, sent, emitted,
                   http_response, job_log, fetched, Alert, tasks>>

\* PstraxScraper.login(username, password, base_url), scraper.py 26-189:
\* the GET of the login page, and the login POST when the page gave a form
\* to submit.  The page may lack any of the things login looks for, either
\* request may raise, and the POST may be answered with a body longer than
\* the preview login keeps.
CallLogin ==
    /\ pc = "idle"
    /\ \E base_url \in BaseUrls :
        LET RECURSIVE Repeat(_, _)
            Repeat(str, n) == IF n = 0 THEN "" ELSE str \o Repeat(str, n - 1)
            gets == GetAnswers \cup OtherExceptions \cup
                    [exc : {"none"}, status_code : {200},
                     form : {TRUE}, username_field : BOOLEAN,
                     password_field : BOOLEAN, csrf_field : BOOLEAN,
                     csrf_token : {"", "abc123"},
                     action : {"", "/login.php", "login.php"}]
            posts == PostAnswers \cup OtherExceptions \cup
                     {[a EXCEPT !.text = Repeat("<p>pstrax</p>", 40)] :
                        a \in {b \in PostAnswers : b.exc = "none"}}
        IN
        \E get \in gets :
            LET parsed == login_parse_page(get, base_url) IN
            IF parsed[1]
            THEN \E post \in posts :
                    LET result == login_classify(post, "alice", base_url, parsed[2])
                    IN loc' = [call |-> "login", base_url |-> base_url,
                               get |-> get, post |-> post,
                               success |-> result[1], detail |-> result[2]]
            ELSE loc' = [call |-> "login", base_url |-> base_url, get |-> get,
                         success |-> FALSE, detail |-> parsed[2]]
    /\ pc' = "called"
    /\ UNCHANGED <<Task, User, now, ScrapeConfig, ScrapeData, session, sent, emitted,
                   http_response, job_log, fetched, Alert, tasks>>

\* the caller is done with the result
CallReturn ==
    /\ pc = "called"
    /\ pc' = "idle"
    /\ loc' = [call |-> None]
    /\ fetched' = NoEnvelope
    /\ UNCHANGED <<Task, User, now, ScrapeConfig, ScrapeData, session, sent, emitted,
                   http_response, job_log, Alert, tasks>>

NextCalls ==
    \/ CallScrapeData
    \/ CallAlertsData
    \/ CallSetPassword
    \/ CallGetPassword
    \/ CallLogin
    \/ CallReturn

SpecCalls == InitCalls /\ [][NextCalls]_vars

\* a data response came back
Fetched == loc.call \in {"scrape_data", "perform_scrape"} /\ loc.resp.exc = "none"

\* the body says that the session is over, the final URL is a login URL
ExpiryMarked(resp) ==
    \/ Contains(lower(resp.text), "session expired")
    \/ Contains(lower(resp.text), "authentication expired")
    \/ Contains(lower(resp.url), "login")

IsSuccessWithPayload(resp) ==
    /\ fetched.status = "success"
    /\ fetched.data = json_loads(resp.text)

\* C17 as stated: every data response with status 200 and a body that is
\* valid JSON gives a fetch result 'success' with the parsed payload,
\* whatever the declared content type
C17_ValidJsonIsSuccess ==
    (Fetched /\ loc.resp.status_code = 200 /\ IsJson(loc.resp.text))
        => IsSuccessWithPayload(loc.resp)

\* C17: every data response with status 200 and a body that is valid JSON
\* gives 'success' with the parsed payload, whatever the declared content
\* type, in perform_scrape always and in scrape_data unless the body holds
\* an expiry marker or the final URL is a login URL
C17_ValidJsonIsSuccessUnlessExpired ==
    (Fetched /\ loc.resp.status_code = 200 /\ IsJson(loc.resp.text)
     /\ (loc.call = "scrape_data" => ~ExpiryMarked(loc.resp)))
        => IsSuccessWithPayload(loc.resp)

\* scrape_data has answered 'success' to a JSON body declared as text/html
C17_Witness ==
    /\ Fetched /\ loc.call = "scrape_data"
    /\ loc.resp.status_code = 200
    /\ loc.resp.content_type = "text/html; charset=UTF-8"
    /\ IsJson(loc.resp.text)
    /\ IsSuccessWithPayload(loc.resp)

\* C18: every data response whose body contains "session expired" in any
\* letter case gives a fetch result 'error' whose reason mentions the
\* expiry, whatever the HTTP status and whether or not the body is JSON
C18_SessionExpiredIsError ==
    (Fetched /\ Contains(lower(loc.resp.text), "session expired")) =>
        /\ fetched.status = "error"
        /\ Contains(lower(fetched.error), "expired")

\* the Credential Record's stored password
Stored_password == ScrapeConfig[1].pstrax_password_encrypted

\* C19: after set_password(p) with a non-empty p the stored field is a
\* Fernet token, not p, and get_password() gives p back; set_password with
\* an empty value clears the field; get_password() returns None when
\* nothing is stored or the token is not one of the current key, and the
\* plaintext otherwise
C19_PasswordStoredEncrypted ==
    /\ loc.call = "set_password" =>
        IF Truthy(loc.password)
        THEN /\ Stored_password.kind = "fernet"
             /\ get_password(ScrapeConfig[1]) = loc.password
        ELSE Stored_password = NoToken
    /\ loc.call = "get_password" =>
        IF Stored_password = NoToken \/ Stored_password.key # CurrentKey
        THEN loc.result = None
        ELSE loc.result = Stored_password.plain

\* get_password() has returned the password an earlier set_password stored
C19_Witness ==
    /\ loc.call = "get_password"
    /\ loc.result = "hunter2"
    /\ Stored_password.kind = "fernet"

\* login has sent the login POST
Posted == loc.call = "login" /\ "post" \in DOMAIN loc

\* C20: login returns success whenever the answer to the login POST shows
\* one of: a URL without 'login', a logout affordance in the body, a
\* dashboard marker in the body, the submitted username in the body
C20_AnySignalIsSuccess ==
    (Posted /\ loc.post.exc = "none"
     /\ (\/ ~Contains(loc.post.url, "login")
         \/ loc.post.logout
         \/ loc.post.dashboard
         \/ loc.post.username))
        => loc.success

\* C21: when the answer to the login POST is the login form again at a
\* login URL, login returns failure with a message and a preview of the
\* body, and the run sends no data request
C21_StillOnLoginPageEndsRun ==
    \A r \in Runs :
        (LoginFailed(r)
         /\ StartsWith(loc[r].login_result.message,
                       "Login failed - still on login page")) =>
            /\ "response_preview" \in DOMAIN loc[r].login_result
            /\ DataRequests(r) = {}

\* the answer to the login POST shows none of the signals line 153 tests
NoSignal ==
    /\ Posted /\ loc.post.exc = "none"
    /\ Contains(loc.post.url, "login")
    /\ ~loc.post.logout /\ ~loc.post.home /\ ~loc.post.dashboard

\* C22: when the answer to the login POST shows no success signal and is
\* not a login form at a login URL, login returns success exactly when the
\* status is 200; that result, like every success, is the final URL as
\* redirect_url plus the alerts link when the page has one
C22_TentativeSuccessOn200 ==
    /\ (NoSignal /\ ~loc.post.login_form) => (loc.success <=> loc.post.status_code = 200)
    /\ (Posted /\ loc.success) =>
        LET alerts_link == _find_alerts_link(loc.post.hrefs, loc.base_url,
                                             loc.post.url)
        IN /\ loc.detail.redirect_url = loc.post.url
           /\ DOMAIN loc.detail = IF Truthy(alerts_link)
                                  THEN {"redirect_url", "alerts_link"}
                                  ELSE {"redirect_url"}
           /\ Truthy(alerts_link) => loc.detail.alerts_link = alerts_link

\* login has returned a tentative success that carries an alerts link
C22_Witness ==
    /\ NoSignal /\ ~loc.post.login_form
    /\ loc.post.status_code = 200
    /\ loc.success
    /\ "alerts_link" \in DOMAIN loc.detail

\* what the last request login sent ended with
LoginException == IF Posted THEN loc.post.exc ELSE loc.get.exc

\* C23: login returns a pair (success flag, result) for every outcome of
\* the GET and of the POST; when a request raised, the pair is (False,
\* detail) with a message, 'Network error: ...' for a network error and
\* 'Unexpected error: ...' for any other exception
C23_LoginNeverRaises ==
    loc.call = "login" =>
        /\ loc.success \in BOOLEAN
        /\ ~loc.success => Truthy(loc.detail.message)
        /\ LoginException = "RequestException" =>
            ~loc.success /\ StartsWith(loc.detail.message, "Network error: ")
        /\ LoginException = "Exception" =>
            ~loc.success /\ StartsWith(loc.detail.message, "Unexpected error: ")

\* the login POST timed out and login returned a network error
C23_Witness ==
    /\ Posted
    /\ loc.post.exc = "RequestException"
    /\ ~loc.success
    /\ loc.detail.message = "Network error: Read timed out"

\* C24: every failure result of login carries a step name, a message, the
\* URL of the request that failed and, when a response was received, its
\* HTTP status and a preview of its body of at most 500 characters
C24_FailureDetailComplete ==
    (loc.call = "login" /\ ~loc.success) =>
        /\ Truthy(loc.detail.step)
        /\ Truthy(loc.detail.message)
        /\ LoginException = "none" =>
            /\ loc.detail.status_code # NoStatus
            /\ "response_preview" \in DOMAIN loc.detail
            /\ Len(Get(loc.detail, "response_preview")) <= 500
        /\ Truthy(loc.detail.url)

-----------------------------------------------------------------------------
(* Tasks, alerts and their owners: the requests of routes.py that change or *)
(* delete a row of Task or Alert. Every request is one step; loc keeps the   *)
(* handler, the logged-in user, the id in the URL and the answer's status    *)

\* the rows Task holds when the first request arrives
MaxTasks == 2
\* the socket events after which no further request is taken
MaxEvents == 1

\* the owner test with every logged-in user passing it
Unauthorized_Never(owner_id, current_user_id) == FALSE

\* 'task.user_id != current_user.id', routes.py 80, 100, 115, and
\* 'alert.created_by != current_user.id', routes.py 169
Unauthorized(owner_id, current_user_id) == owner_id # current_user_id

\* the decorator of routes.py 420; app/admin.py is not among the files, the
\* decorator is taken to admit the users whose is_admin is set
admin_required(user) == user.is_admin

\* the rows of table with this id: Model.query.get
query_get(table, id) == {i \in 1..Len(table) : table[i].id = id}

\* db.session.delete of the rows in S, then commit
session_delete(table, S) == SelectSeq(table, LAMBDA row : row \notin S)

\* emit_task_update(task_id), socketio_events.py 25-34, with Task.to_dict,
\* models/task.py 15-25; NoRow is None
emit_task_update(events, table, task_id) ==
    LET isoformat(t) == IF t = NoTime THEN None ELSE ToString(t)
        task_to_dict(task) ==
            [id |-> task.id, content |-> task.content,
             completed |-> task.completed, priority |-> task.priority,
             user_id |-> task.user_id,
             created_at |-> isoformat(task.created_at),
             updated_at |-> isoformat(task.updated_at), action |-> "updated"]
        event(payload) == [event |-> "task_updated", payload |-> payload]
        with_id == query_get(table, task_id)
    IN
    IF task_id # NoRow
    THEN IF with_id # {}
         THEN Append(events, event(task_to_dict(table[CHOOSE i \in with_id : TRUE])))
         ELSE events
    ELSE Append(events, event([action |-> "refresh"]))

\* the tables task may hold, models/task.py 7-13: ids ascend from 1
TaskTables ==
    LET TaskRows ==
            [id : {0}, content : {"refill"}, completed : BOOLEAN,
             priority : {2}, user_id : {1, 2}, created_at : {0},
             updated_at : {0}]
        Tables(n) == {t \in [1..n -> TaskRows] : TRUE}
    IN UNION {{[i \in 1..n |-> [t[i] EXCEPT !.id = i]] : t \in Tables(n)}
              : n \in 0..MaxTasks}

\* what a TaskForm may carry, forms.py 18-27
TaskForms ==
    {[content |-> "", completed |-> FALSE, priority |-> 2],
     [content |-> "check masks", completed |-> FALSE, priority |-> 4],
     [content |-> "check masks", completed |-> FALSE, priority |-> 2],
     [content |-> "check masks", completed |-> TRUE, priority |-> 2]}

\* TaskForm.validate_on_submit, forms.py 20-26
validate_on_submit(form) == form.content # "" /\ form.priority \in {1, 2, 3}

\* the rows were written at 0, the requests arrive later
InitOwnership ==
    /\ now = MaxTime
    /\ ScrapeConfig = <<>>
    /\ ScrapeData = <<>>
    /\ pc = "serving"
    /\ loc = [handler |-> None, current_user |-> NoRow, id |-> NoRow, status |-> 0]
    /\ session = NoSession
    /\ sent = <<>>
    /\ emitted = <<>>
    /\ http_response = NoResponse
    /\ job_log = <<>>
    /\ fetched = NoEnvelope
    /\ Alert \in {<<>>} \cup
                 {<<[t[1] EXCEPT !.created_by = u]>> :
                      t \in {a \in AlertTables : Len(a) = 1 /\ a[1].end_time = 1
                                                  /\ a[1].start_time = NoTime},
                      u \in {1, 2}}
    /\ tasks = NotStarted
    /\ Task \in TaskTables
    /\ User = <<[id |-> 1, is_admin |-> TRUE], [id |-> 2, is_admin |-> FALSE]>>

\* the users a request can be logged in as: @login_required
LoggedIn == {User[i].id : i \in 1..Len(User)}

\* the ids a URL may name
Ids == 1..(MaxTasks + 1)

Answer(handler, u, id, status) ==
    loc' = [handler |-> handler, current_user |-> u, id |-> id, status |-> status]

\* update_task(task_id), routes.py 75-92
UpdateTask(u, task_id, form) ==
    LET found == query_get(Task, task_id)
        i == CHOOSE k \in found : TRUE
    IN
    /\ Len(emitted) < MaxEvents
    /\ u \in LoggedIn
    /\ IF found = {}
       THEN /\ Answer("update_task", u, task_id, 404)
            /\ UNCHANGED <<Task, emitted>>
       ELSE IF Unauthorized(Task[i].user_id, u)
       THEN /\ Answer("update_task", u, task_id, 302)
            /\ UNCHANGED <<Task, emitted>>
       ELSE IF validate_on_submit(form)
       THEN /\ Task' = [Task EXCEPT ![i].content = form.content,
                                    ![i].completed = form.completed,
                                    ![i].updated_at = now]
            /\ emitted' = emit_task_update(emitted, Task', task_id)
            /\ Answer("update_task", u, task_id, 302)
       ELSE /\ Answer("update_task", u, task_id, 302)
            /\ UNCHANGED <<Task, emitted>>
    /\ UNCHANGED <<User, Alert, tasks, now, ScrapeConfig, ScrapeData, pc, session,
                   sent, http_response, job_log, fetched>>

\* toggle_task(task_id), routes.py 95-107
ToggleTask(u, task_id) ==
    LET found == query_get(Task, task_id)
        i == CHOOSE k \in found : TRUE
    IN
    /\ Len(emitted) < MaxEvents
    /\ u \in LoggedIn
    /\ IF found = {}
       THEN /\ Answer("toggle_task", u, task_id, 404)
            /\ UNCHANGED <<Task, emitted>>
       ELSE IF Unauthorized(Task[i].user_id, u)
       THEN /\ Answer("toggle_task", u, task_id, 403)
            /\ UNCHANGED <<Task, emitted>>
       ELSE /\ Task' = [Task EXCEPT ![i].completed = ~Task[i].completed,
                                    ![i].updated_at = now]
            /\ emitted' = emit_task_update(emitted, Task', task_id)
            /\ Answer("toggle_task", u, task_id, 200)
    /\ UNCHANGED <<User, Alert, tasks, now, ScrapeConfig, ScrapeData, pc, session,
                   sent, http_response, job_log, fetched>>

\* delete_task(task_id), routes.py 110-123
DeleteTask(u, task_id) ==
    LET found == query_get(Task, task_id)
        i == CHOOSE k \in found : TRUE
    IN
    /\ Len(emitted) < MaxEvents
    /\ u \in LoggedIn
    /\ IF found = {}
       THEN /\ Answer("delete_task", u, task_id, 404)
            /\ UNCHANGED <<Task, emitted>>
       ELSE IF Unauthorized(Task[i].user_id, u)
       THEN /\ Answer("delete_task", u, task_id, 302)
            /\ UNCHANGED <<Task, emitted>>
       ELSE /\ Task' = session_delete(Task, {Task[i]})
            /\ emitted' = emit_task_update(emitted, Task', NoRow)
            /\ Answer("delete_task", u, task_id, 302)
    /\ UNCHANGED <<User, Alert, tasks, now, ScrapeConfig, ScrapeData, pc, session,
                   sent, http_response, job_log, fetched>>

\* delete_alert(alert_id), routes.py 164-177
DeleteAlert(u, alert_id) ==
    LET found == query_get(Alert, alert_id)
        i == CHOOSE k \in found : TRUE
    IN
    /\ Len(emitted) < MaxEvents
    /\ u \in LoggedIn
    /\ IF found = {}
       THEN /\ Answer("delete_alert", u, alert_id, 404)
            /\ UNCHANGED <<Alert, emitted>>
       ELSE IF Unauthorized(Alert[i].created_by, u)
       THEN /\ Answer("delete_alert", u, alert_id, 302)
            /\ UNCHANGED <<Alert, emitted>>
       ELSE /\ Alert' = session_delete(Alert, {Alert[i]})
            /\ emitted' = emit_alert_update(emitted, Alert', NoRow)
            /\ Answer("delete_alert", u, alert_id, 302)
    /\ UNCHANGED <<Task, User, tasks, now, ScrapeConfig, ScrapeData, pc, session,
                   sent, http_response, job_log, fetched>>

\* admin_delete_user(user_id), routes.py 418-434. The deletion cascades to
\* the user's tasks (models/user.py 16); the user's alerts are not deleted
\* (models/user.py 17) and their created_by is not nullable
\* (models/alert.py 12), so the commit of a user who created an alert fails
AdminDeleteUser(u, user_id) ==
    LET me == User[CHOOSE k \in query_get(User, u) : TRUE]
        found == query_get(User, user_id)
        i == CHOOSE k \in found : TRUE
        alerts == {k \in 1..Len(Alert) : Alert[k].created_by = user_id}
    IN
    /\ Len(emitted) < MaxEvents
    /\ u \in LoggedIn
    /\ IF ~admin_required(me)
       THEN /\ Answer("admin_delete_user", u, user_id, 403)
            /\ UNCHANGED <<Task, User>>
       ELSE IF found = {}
       THEN /\ Answer("admin_delete_user", u, user_id, 404)
            /\ UNCHANGED <<Task, User>>
       ELSE IF User[i].id = u
       THEN /\ Answer("admin_delete_user", u, user_id, 302)
            /\ UNCHANGED <<Task, User>>
       ELSE IF alerts # {}
       THEN /\ Answer("admin_delete_user", u, user_id, 500)
            /\ UNCHANGED <<Task, User>>
       ELSE /\ User' = session_delete(User, {User[i]})
            /\ Task' = SelectSeq(Task, LAMBDA task : task.user_id # user_id)
            /\ Answer("admin_delete_user", u, user_id, 302)
    /\ UNCHANGED <<Alert, emitted, tasks, now, ScrapeConfig, ScrapeData, pc, session,
                   sent, http_response, job_log, fetched>>

NextOwnership ==
    \E u \in {1, 2}, id \in Ids :
        \/ \E form \in TaskForms : UpdateTask(u, id, form)
        \/ ToggleTask(u, id)
        \/ DeleteTask(u, id)
        \/ DeleteAlert(u, id)
        \/ AdminDeleteUser(u, id)

SpecOwnership == InitOwnership /\ [][NextOwnership]_vars

\* the step is a request for a task or an alert by its owner
ByOwner ==
    \/ /\ loc'.handler \in {"update_task", "toggle_task", "delete_task"}
       /\ \E i \in 1..Len(Task) : /\ Task[i].id = loc'.id
                                  /\ Task[i].user_id = loc'.current_user
    \/ /\ loc'.handler = "delete_alert"
       /\ \E i \in 1..Len(Alert) : /\ Alert[i].id = loc'.id
                                   /\ Alert[i].created_by = loc'.current_user

\* the rows of table the step changed or removed
Touched(table, after) ==
    {i \in 1..Len(table) : \A j \in 1..Len(after) : after[j] # table[i]}

\* C30 as stated: a step that changes or removes a task, removes an alert or
\* publishes an update is a request of the owner of that task or alert
C30_OnlyTheOwnerChangesOrDeletes ==
    [][(Touched(Task, Task') # {} \/ Touched(Alert, Alert') # {}
            \/ emitted' # emitted)
        => ByOwner]_vars

\* C30: a task is changed or removed, and an alert removed, only by a request
\* of its owner for that very row, which alone publishes an update, or, for a
\* task, by an administrator's deletion of another user, which removes
\* exactly that user's tasks, no alert, and publishes nothing
C30_OnlyTheOwnerOrAnAdministratorsUserDeletion ==
    [][(Touched(Task, Task') # {} \/ Touched(Alert, Alert') # {}
            \/ emitted' # emitted)
        => \/ /\ ByOwner
              /\ \A i \in Touched(Task, Task') : Task[i].id = loc'.id
              /\ \A i \in Touched(Alert, Alert') : Alert[i].id = loc'.id
           \/ /\ loc'.handler = "admin_delete_user"
              /\ loc'.current_user # loc'.id
              /\ \E i \in 1..Len(User) : /\ User[i].id = loc'.current_user
                                         /\ User[i].is_admin
              /\ \A i \in Touched(Task, Task') : Task[i].user_id = loc'.id
              /\ Alert' = Alert
              /\ emitted' = emitted]_vars

\* a user who does not own the task asked to delete it and was turned away
C30_Witness ==
    /\ loc.handler = "delete_task"
    /\ loc.status = 302
    /\ emitted = <<>>
    /\ \E i \in 1..Len(Task) : /\ Task[i].id = loc.id
                               /\ Task[i].user_id # loc.current_user

====
